---- MODULE Spec2Model ----
(***************************************************************************)
(* Model of the bookmark rendering engine                                  *)
(* (backend/app/services/bookmark_generator.py, with the parts of          *)
(* api/routes.py and core/config.py it depends on).                        *)
(*                                                                         *)
(* Images are modelled by their geometry and by where their pixels come    *)
(* from; the drawing surface is modelled as the ordered list of drawing    *)
(* operations applied to it (later entries paint over earlier ones).       *)
(* Floating-point ratios are modelled by exact rational arithmetic on the  *)
(* integer operands; where the exact value sits on a comparison threshold  *)
(* the binary64 rounding decides, and the model allows both outcomes.      *)
(***************************************************************************)
EXTENDS Integers, Sequences, FiniteSets, TLC

VARIABLES
    fitIn,      \* input of one _fit_image_to_zone call
    fitOut,     \* its result
    wrapIn,     \* input of one _draw_horizontal_text call
    wrapOut,    \* its result
    vertIn,     \* input of one _draw_vertical_text call
    vertOut,    \* its result
    fontIn,     \* input of one _load_font call
    fontOut,    \* its result
    interpIn,   \* input of one _interpolate_color call
    interpOut,  \* its result
    zoneIn,     \* input of one _get_text_area call
    zoneOut,    \* its result
    textIn,     \* input of one _add_user_text call
    textOut,    \* its result
    backgroundIn,   \* input of one _draw_background call
    backgroundOut,  \* its result
    routeIn,    \* form fields of one generate-final request
    routeOut,   \* what the route made of them
    pc,         \* position of the render call in progress
    request,    \* the GenerateFinalRequest / preview arguments of the call
    photo,      \* the user photo handed to generate_final
    bgFile,     \* the file behind the background image path
    content,    \* drawing operations applied to the content image, in order
    canvas,     \* the bleed-padded canvas: its base fill and what was pasted
    files,      \* files of this call present in the download directory
    encoded,    \* what each encoder of this call was given
    outcome,    \* what the caller of the render call observes
    warnings    \* number of warnings/errors logged by the call

fitVars == <<fitIn, fitOut>>
wrapVars == <<wrapIn, wrapOut>>
vertVars == <<vertIn, vertOut>>
fontVars == <<fontIn, fontOut>>
interpVars == <<interpIn, interpOut>>
zoneVars == <<zoneIn, zoneOut>>
textVars == <<textIn, textOut>>
backgroundVars == <<backgroundIn, backgroundOut>>
routeVars == <<routeIn, routeOut>>
pureVars == <<fitVars, wrapVars, vertVars, fontVars, interpVars, zoneVars,
              textVars, backgroundVars, routeVars>>
renderVars == <<pc, request, photo, bgFile, content, canvas, files, encoded,
                outcome, warnings>>
vars == <<pureVars, renderVars>>

(***************************************************************************)
(* Bounds of the model                                                     *)
(***************************************************************************)
MaxDim == 4          \* image and target sides explored for fit_to_zone
MaxLen == 4          \* longest text explored for horizontal wrapping
MaxCharW == 3        \* widest glyph explored for horizontal wrapping
MaxExtra == 6        \* widest zone explored: padding + MaxExtra
MaxVLen == 32        \* longest text explored for vertical layout
MaxBlocks == 2       \* most rich-text blocks in a request
MaxPresent == 3      \* most font files of the list present on disk
MaxStops == 3        \* most colours of a gradient explored
RatioDen == 4        \* interpolation ratios explored are k / RatioDen
MaxScale == 3        \* largest canvas of the 1:3 family, in units of 100 x 300
MaxRich == 3         \* most blocks of a rich text explored in detail

Abs(x) == IF x < 0 THEN -x ELSE x
Min(a, b) == IF a <= b THEN a ELSE b
Max(a, b) == IF a >= b THEN a ELSE b

(***************************************************************************)
(* Image fitting: PIL geometry and _fit_image_to_zone                      *)
(***************************************************************************)
NoImage == [w |-> 0, h |-> 0, px |-> "none"]

\* Image.crop(box): the result has the size of the box, which may be empty.
Crop(image, left, top, right, bottom) ==
    [w |-> right - left, h |-> bottom - top, px |-> image.px]

\* Image.resize(size, LANCZOS); a requested side below 1 raises.  Resampling a source with an empty side is
\* outside what the library documents: the build either raises or returns a
\* blank image of the requested size, and the model allows both.
Resize(image, tw, th) ==
    IF tw < 1 \/ th < 1
    THEN {[raised |-> TRUE, img |-> NoImage]}
    ELSE IF image.w >= 1 /\ image.h >= 1
    THEN {[raised |-> FALSE, img |-> [w |-> tw, h |-> th, px |-> image.px]]}
    ELSE {[raised |-> FALSE, img |-> [w |-> tw, h |-> th, px |-> "blank"]],
          [raised |-> TRUE, img |-> NoImage]}

\* abs(target_ratio - img_ratio) < 0.1 on tw/th and iw/ih.  Exactly on the
\* threshold the rounding of the binary64 quotients decides.
RatiosClose(iw, ih, tw, th) ==
    LET d == 10 * Abs(tw * ih - iw * th)
    IN  IF d < th * ih THEN {TRUE}
        ELSE IF d = th * ih THEN {TRUE, FALSE}
        ELSE {FALSE}

\* "crop left/right": new_width = int(image.height * target_ratio)
FitCropSides(image, tw, th) ==
    LET new_width == (image.h * tw) \div th
        left == (image.w - new_width) \div 2
    IN  Crop(image, left, 0, left + new_width, image.h)

\* "crop top/bottom": new_height = int(image.width / target_ratio)
FitCropEnds(image, tw, th) ==
    LET new_height == (image.w * th) \div tw
        top == (image.h - new_height) \div 2
    IN  Crop(image, 0, top, image.w, top + new_height)

\* _fit_image_to_zone: every result the call can produce, each with the
\* branch taken and the crop rectangle handed to resize.
FitImageToZone(image, tw, th) ==
    LET direct == {[done |-> TRUE, branch |-> "direct", crop |-> image,
                    raised |-> r.raised, img |-> r.img] :
                        r \in Resize(image, tw, th)}
        wider == image.w * th > tw * image.h
        cropped == IF wider THEN FitCropSides(image, tw, th)
                   ELSE FitCropEnds(image, tw, th)
        viaCrop == {[done |-> TRUE,
                     branch |-> IF wider THEN "crop_lr" ELSE "crop_tb",
                     crop |-> cropped,
                     raised |-> r.raised, img |-> r.img] :
                        r \in Resize(cropped, tw, th)}
    IN  UNION {IF close THEN direct ELSE viaCrop :
                  close \in RatiosClose(image.w, image.h, tw, th)}

NoFitIn == [image |-> NoImage, tw |-> 0, th |-> 0]
NoFit == [done |-> FALSE, branch |-> "none", crop |-> NoImage,
          raised |-> FALSE, img |-> NoImage]

FitIdle == fitIn = NoFitIn /\ fitOut = NoFit

(***************************************************************************)
(* Text layout primitives.  A text is a sequence of characters; for        *)
(* horizontal wrapping a character is identified with its advance width,   *)
(* so that every assignment of widths to characters is explored.           *)
(***************************************************************************)
RECURSIVE TextWidth(_)
\* draw.textbbox((0, 0), line, font): bbox[2] - bbox[0], fixed advances.
TextWidth(line) ==
    IF line = <<>> THEN 0 ELSE Head(line) + TextWidth(Tail(line))

RECURSIVE WrapFromDropsOverflow(_, _, _, _, _)
\* Variant of the wrapping loop that starts the new line empty, losing the
\* character that overflowed.
WrapFromDropsOverflow(text, i, max_width, lines, current_line) ==
    IF i > Len(text)
    THEN IF current_line # <<>> THEN Append(lines, current_line) ELSE lines
    ELSE LET test_line == Append(current_line, text[i])
         IN  IF TextWidth(test_line) <= max_width
             THEN WrapFromDropsOverflow(text, i + 1, max_width, lines,
                                        test_line)
             ELSE WrapFromDropsOverflow(text, i + 1, max_width,
                                        IF current_line # <<>>
                                        THEN Append(lines, current_line)
                                        ELSE lines,
                                        <<>>)

RECURSIVE WrapFrom(_, _, _, _, _)
\* The loop of _wrap_text_lines from character i on, with the lines
\* committed so far and the current line.
WrapFrom(text, i, max_width, lines, current_line) ==
    IF i > Len(text)
    THEN IF current_line # <<>> THEN Append(lines, current_line) ELSE lines
    ELSE LET test_line == Append(current_line, text[i])
         IN  IF TextWidth(test_line) <= max_width
             THEN WrapFrom(text, i + 1, max_width, lines, test_line)
             ELSE WrapFrom(text, i + 1, max_width,
                           IF current_line # <<>>
                           THEN Append(lines, current_line) ELSE lines,
                           <<text[i]>>)

WrapTextLines(text, max_width) == WrapFrom(text, 1, max_width, <<>>, <<>>)

Padding == 20        \* text_width - 20 in _draw_horizontal_text
LeftPad == 10        \* x_start + 10 for left alignment
LineGap == 8         \* font.size + 8

\* Variant of the wrapping step that wraps at the full zone width.
HorizontalLinesNoPadding(text, text_area) ==
    WrapTextLines(text, text_area.width)

\* The wrapping step of _draw_horizontal_text.
HorizontalLines(text, text_area) ==
    WrapTextLines(text, text_area.width - Padding)

\* x of one line for the alignment.
LineX(text_area, line, alignment) ==
    LET line_width == TextWidth(line)
    IN  IF alignment = "center"
        THEN text_area.x_start + ((text_area.width - line_width) \div 2)
        ELSE IF alignment = "right"
        THEN text_area.x_start + text_area.width - line_width
        ELSE text_area.x_start + LeftPad

\* _draw_horizontal_text: the lines drawn with their positions, and the
\* returned cursor.
DrawHorizontalText(text, text_area, current_y, font_size, color, alignment) ==
    LET lines == HorizontalLines(text, text_area)
    IN  [lines |-> lines,
         draws |-> [k \in 1..Len(lines) |->
                      [line |-> lines[k],
                       x |-> LineX(text_area, lines[k], alignment),
                       y |-> current_y + (k - 1) * (font_size + LineGap),
                       color |-> color]],
         y |-> current_y + Len(lines) * (font_size + LineGap)]

NoWrapIn == [text |-> <<>>, area |-> [x_start |-> 0, y_start |-> 0,
                                      width |-> 0, height |-> 0],
             y |-> 0, font_size |-> 0, alignment |-> "none"]
NoWrap == [done |-> FALSE, lines |-> <<>>, draws |-> <<>>, y |-> 0]

WrapIdle == wrapIn = NoWrapIn /\ wrapOut = NoWrap

max_chars_per_column == 10
max_columns_allowed == 3
max_total_chars == max_chars_per_column * max_columns_allowed
MinCharWidth == 12   \* char_width = max(font.size, 12)
BlockGap == 20       \* "+ 20" of the value _draw_vertical_text returns

\* text[:n]
Prefix(text, n) == SubSeq(text, 1, Min(n, Len(text)))

\* Variant of the truncation step that keeps one character fewer.
VerticalTruncateShort(text) ==
    IF Len(text) > max_total_chars
    THEN Prefix(text, max_total_chars - 1) ELSE text

\* The truncation step: text[:max_total_chars] when the text is longer.
VerticalTruncate(text) ==
    IF Len(text) > max_total_chars THEN Prefix(text, max_total_chars) ELSE text

\* Variant of num_columns that rounds the quotient down.
NumColumnsFloor(total_chars) ==
    LET n == Min(total_chars \div max_chars_per_column, max_columns_allowed)
    IN  IF total_chars > 0 /\ n = 0 THEN 1 ELSE n

\* num_columns: ceil(total_chars / 10) capped at 3, forced to 1 for a
\* non-empty text that would get none.
NumColumns(total_chars) ==
    LET n == Min((total_chars + max_chars_per_column - 1)
                     \div max_chars_per_column,
                 max_columns_allowed)
    IN  IF total_chars > 0 /\ n = 0 THEN 1 ELSE n

\* Start x of the column block for the alignment.
VerticalX(text_area, num_columns, char_width, alignment) ==
    IF alignment = "center"
    THEN text_area.x_start
             + ((text_area.width - num_columns * char_width) \div 2)
    ELSE IF alignment = "right"
    THEN text_area.x_start + text_area.width - num_columns * char_width
    ELSE text_area.x_start

\* Variant of the column slicing that fills the columns from the end of
\* the text, as a right-to-left reading order would.
ColumnCharsFromEnd(text, col) ==
    LET total_chars == Len(text)
        start_idx == (NumColumns(total_chars) - 1 - col) * max_chars_per_column
        end_idx == Min(start_idx + max_chars_per_column, total_chars)
    IN  SubSeq(text, start_idx + 1, end_idx)

\* The characters of column col (0-based): text[start_idx:end_idx].
ColumnChars(text, col) ==
    LET total_chars == Len(text)
        start_idx == col * max_chars_per_column
        end_idx == Min(start_idx + max_chars_per_column, total_chars)
    IN  SubSeq(text, start_idx + 1, end_idx)

RECURSIVE ColumnDrawsRightToLeft(_, _, _, _, _, _, _)
\* Variant of the drawing loops that lays the columns out right to left.
ColumnDrawsRightToLeft(text, col, num_columns, x, current_y, char_width, char_size) ==
    IF col >= num_columns THEN <<>>
    ELSE LET column_chars == ColumnChars(text, col)
             col_x == x + (num_columns - 1 - col) * char_width
         IN  [r \in 1..Len(column_chars) |->
                 [ch |-> column_chars[r], col |-> col, row |-> r - 1,
                  x |-> col_x, y |-> current_y + (r - 1) * char_size]]
             \o ColumnDrawsRightToLeft(text, col + 1, num_columns, x,
                                       current_y, char_width, char_size)

RECURSIVE ColumnDraws(_, _, _, _, _, _, _)
\* The two nested drawing loops from column col on: one entry per
\* draw.text call, in call order.
ColumnDraws(text, col, num_columns, x, current_y, char_width, char_size) ==
    IF col >= num_columns THEN <<>>
    ELSE LET column_chars == ColumnChars(text, col)
             col_x == x + col * char_width
         IN  [r \in 1..Len(column_chars) |->
                 [ch |-> column_chars[r], col |-> col, row |-> r - 1,
                  x |-> col_x, y |-> current_y + (r - 1) * char_size]]
             \o ColumnDraws(text, col + 1, num_columns, x, current_y,
                            char_width, char_size)

\* _draw_vertical_text: the characters drawn, whether the truncation
\* warning was logged, and the returned cursor.
DrawVerticalText(text0, text_area, current_y, font_size, color, alignment) ==
    LET char_size == font_size + LineGap
        char_width == Max(font_size, MinCharWidth)
        text == VerticalTruncate(text0)
        total_chars == Len(text)
        num_columns == NumColumns(total_chars)
        x == VerticalX(text_area, num_columns, char_width, alignment)
        actual_rows_used == Min(total_chars, max_chars_per_column)
    IN  [draws |-> ColumnDraws(text, 0, num_columns, x, current_y,
                               char_width, char_size),
         num_columns |-> num_columns,
         warned |-> Len(text0) > max_total_chars,
         raised |-> FALSE,
         y |-> current_y + actual_rows_used * char_size + BlockGap]

NoVertIn == [text |-> <<>>, area |-> [x_start |-> 0, y_start |-> 0,
                                      width |-> 0, height |-> 0],
             y |-> 0, font_size |-> 0, alignment |-> "none"]
NoVert == [done |-> FALSE, draws |-> <<>>, num_columns |-> 0,
           warned |-> FALSE, raised |-> FALSE, y |-> 0]

VertIdle == vertIn = NoVertIn /\ vertOut = NoVert

(***************************************************************************)
(* Configuration (core/config.py)                                          *)
(***************************************************************************)
BOOKMARK_WIDTH_MM == 60
BOOKMARK_HEIGHT_MM == 180
BLEED_MM == 3
PREVIEW_DPI == 72
FINAL_DPI == 300

\* Variant of the conversion that rounds up.
IntMmToPxCeil(mm, dpi) == (mm * dpi * 10 + 253) \div 254

\* int(mm_to_px(mm, dpi)) with mm_to_px = (mm / 25.4) * dpi
IntMmToPx(mm, dpi) == (mm * dpi * 10) \div 254

bookmark_size_px_preview ==
    <<IntMmToPx(BOOKMARK_WIDTH_MM, PREVIEW_DPI),
      IntMmToPx(BOOKMARK_HEIGHT_MM, PREVIEW_DPI)>>
bookmark_size_px_final ==
    <<IntMmToPx(BOOKMARK_WIDTH_MM, FINAL_DPI),
      IntMmToPx(BOOKMARK_HEIGHT_MM, FINAL_DPI)>>
bleed_px_final == IntMmToPx(BLEED_MM, FINAL_DPI)

(***************************************************************************)
(* Colours and drawing operations                                          *)
(***************************************************************************)
\* A colour: a hex string, possibly passed through _lighten_color.
Hex(name) == [hex |-> name, lighten |-> 0]
Lighten(c, percent) == [hex |-> c.hex, lighten |-> percent]
NoColor == Hex("none")

AllColors == <<Hex("P0"), Hex("P1"), Hex("P2"), Hex("P3")>>
Palette(n) == SubSeq(AllColors, 1, n)

\* colors[0] and colors[-1]
First(colors) == colors[1]
Last(colors) == colors[Len(colors)]

\* colors[i] for a 0-based index i computed by the code.  Beyond the palette
\* the subscript raises IndexError and no colour is obtained.
ColorAt(colors, i) ==
    IF i \in 0..(Len(colors) - 1) THEN colors[i + 1] ELSE NoColor

\* One drawing operation on an image: what is drawn, in which colour, over
\* which rectangle (inclusive corners, as ImageDraw takes them), with which
\* stroke width, and for pasted images where the pixels come from.
Op(kind, color, rect, width, px) ==
    [kind |-> kind, color |-> color, outline |-> NoColor, rect |-> rect,
     width |-> width, px |-> px]

\* A filled rectangle with an outline.
OutlinedOp(kind, fill, outline, rect, width) ==
    [kind |-> kind, color |-> fill, outline |-> outline, rect |-> rect,
     width |-> width, px |-> "fill"]

\* Whether a filled rectangle reaches every pixel of a w x h image.
Covers(rect, w, h) ==
    rect[1] <= 0 /\ rect[2] <= 0 /\ rect[3] >= w - 1 /\ rect[4] >= h - 1

FullRect(w, h) == <<0, 0, w - 1, h - 1>>

BackgroundKinds == {"base", "photo", "solid", "gradient", "image", "default"}
TextKinds == {"text"}
OrnamentKinds == {"border", "corner", "dot", "divider"}

(***************************************************************************)
(* Decorative overlay: _add_decorative_elements                            *)
(***************************************************************************)
\* accent_color = colors[1] if len(colors) > 1 else colors[0]
AccentIndex(colors) == IF Len(colors) > 1 THEN 1 ELSE 0
AccentColor(colors) == ColorAt(colors, AccentIndex(colors))

\* fill of the dot markers: colors[-1] if len(colors) > 2 else accent_color
DotIndex(colors) ==
    IF Len(colors) > 2 THEN Len(colors) - 1 ELSE AccentIndex(colors)
DotColor(colors) == ColorAt(colors, DotIndex(colors))

\* Palette indices _add_decorative_elements reads: the accent colour is
\* looked up at every tier, the dot fill from tier 4 on.
DecorReads(complexity, colors) ==
    {AccentIndex(colors)}
        \cup (IF complexity >= 4 THEN {DotIndex(colors)} ELSE {})

BorderOps(width, height, complexity, colors) ==
    IF complexity >= 2
    THEN <<Op("border", AccentColor(colors),
              <<10, 10, width - 10 - 1, height - 10 - 1>>,
              IF complexity >= 4 THEN 3 ELSE 2, "outline")>>
    ELSE <<>>

\* Variant of the corner accents drawn at tier 3 only.
CornerOpsExact(width, height, complexity, colors) ==
    IF complexity = 3
    THEN <<Op("corner", AccentColor(colors), <<0, 0, 15, 15>>, 2, "line")>>
    ELSE <<>>

CornerOps(width, height, complexity, colors) ==
    IF complexity >= 3
    THEN <<Op("corner", AccentColor(colors), <<0, 0, 15, 15>>, 2, "line"),
           Op("corner", AccentColor(colors),
              <<width - 15, 0, width - 1, 15>>, 2, "line"),
           Op("corner", AccentColor(colors),
              <<0, height - 15 - 1, 15, height - 1>>, 2, "line"),
           Op("corner", AccentColor(colors),
              <<width - 15 - 1, height - 15 - 1, width - 1, height - 1>>,
              2, "line")>>
    ELSE <<>>

DotOps(width, height, complexity, colors) ==
    IF complexity >= 4
    THEN LET positions == <<<<20, 20>>, <<width - 20, 20>>,
                            <<20, height - 20>>,
                            <<width - 20, height - 20>>>>
         IN  [k \in 1..4 |->
                 Op("dot", DotColor(colors),
                    <<positions[k][1] - 4, positions[k][2] - 4,
                      positions[k][1] + 4, positions[k][2] + 4>>,
                    0, "fill")]
    ELSE <<>>

DividerOps(width, height, complexity, colors) ==
    IF complexity >= 5
    THEN <<Op("divider", AccentColor(colors),
              <<40, height - 50, width - 40, height - 50>>, 1, "line")>>
    ELSE <<>>

\* _add_decorative_elements: the drawing operations, in call order.
AddDecorativeElements(width, height, complexity, colors) ==
    BorderOps(width, height, complexity, colors)
        \o CornerOps(width, height, complexity, colors)
        \o DotOps(width, height, complexity, colors)
        \o DividerOps(width, height, complexity, colors)

(***************************************************************************)
(* Background compositor: _draw_background, _draw_image_background         *)
(***************************************************************************)
NoBackground == [background_type |-> "none", solid |-> FALSE,
                 gradient |-> FALSE, image |-> FALSE, fit_mode |-> "none"]
NoFile == [state |-> "none", image |-> NoImage]

\* The "contain" branch: scale to cover, then centre-crop the overflow.
ContainFit(image, tw, th) ==
    IF image.w * th > tw * image.h
    THEN LET new_width == (th * image.w) \div image.h
             x == (new_width - tw) \div 2
         IN  {[raised |-> r.raised,
               img |-> IF r.raised THEN NoImage
                       ELSE Crop(r.img, x, 0, x + tw, th)] :
                  r \in Resize(image, new_width, th)}
    ELSE LET new_height == (tw * image.h) \div image.w
             y == (new_height - th) \div 2
         IN  {[raised |-> r.raised,
               img |-> IF r.raised THEN NoImage
                       ELSE Crop(r.img, 0, y, tw, y + th)] :
                  r \in Resize(image, tw, new_height)}

\* The fitting step of _draw_image_background for the fit mode.
FitWithMode(image, tw, th, fit_mode) ==
    IF fit_mode = "cover"
    THEN {[raised |-> r.raised, img |-> r.img] :
              r \in FitImageToZone(image, tw, th)}
    ELSE IF fit_mode = "contain" THEN ContainFit(image, tw, th)
    ELSE Resize(image, tw, th)

\* The image is pasted into the drawing surface by the last statement of
\* the try block only.
ImagePasteOps(fitted) ==
    <<Op("image", NoColor, <<0, 0, fitted.w - 1, fitted.h - 1>>, 0,
         fitted.px)>>

\* Variant of _draw_image_background that clears the surface before it
\* opens the file, so that a failure leaves the cleared surface behind.
DrawImageBackgroundEarlyPaste(ops, w, h, file, fit_mode) ==
    LET cleared == Append(ops, Op("image", NoColor, FullRect(w, h), 0,
                                  "blank"))
    IN  IF file.state # "ok"
        THEN {[content |-> cleared, errors |-> 1]}
        ELSE {IF r.raised
              THEN [content |-> cleared, errors |-> 1]
              ELSE [content |-> ops \o ImagePasteOps(r.img), errors |-> 0] :
                  r \in FitWithMode(file.image, w, h, fit_mode)}

\* _draw_image_background: every outcome (the drawing surface afterwards
\* and the number of errors logged).  Image.open raises for an absent or
\* unreadable file; every exception is caught and logged.
DrawImageBackground(ops, w, h, file, fit_mode) ==
    IF file.state # "ok"
    THEN {[content |-> ops, errors |-> 1]}
    ELSE {IF r.raised
          THEN [content |-> ops, errors |-> 1]
          ELSE [content |-> ops \o ImagePasteOps(r.img), errors |-> 0] :
              r \in FitWithMode(file.image, w, h, fit_mode)}

\* Variant of _draw_background that draws whichever payload is populated,
\* whatever the tag says.
DrawBackgroundByPayload(ops, w, h, background, file) ==
    IF background.background_type = "none"
    THEN {[content |-> ops, errors |-> 0]}
    ELSE IF background.solid
    THEN {[content |-> Append(ops, Op("solid", Hex("S"), <<0, 0, w, h>>, 0,
                                      "fill")),
           errors |-> 0]}
    ELSE IF background.gradient
    THEN {[content |-> Append(ops, Op("gradient", NoColor, FullRect(w, h), 0,
                                      "gradient")),
           errors |-> 0]}
    ELSE IF background.image
    THEN DrawImageBackground(ops, w, h, file, background.fit_mode)
    ELSE {[content |-> ops, errors |-> 0]}

\* _draw_background: dispatch on background_type.
DrawBackground(ops, w, h, background, file) ==
    IF background.background_type = "none"
    THEN {[content |-> ops, errors |-> 0]}
    ELSE IF background.background_type = "solid"
    THEN IF background.solid
         THEN {[content |-> Append(ops, Op("solid", Hex("S"),
                                           <<0, 0, w, h>>, 0, "fill")),
                errors |-> 0]}
         ELSE {[content |-> ops, errors |-> 0]}
    ELSE IF background.background_type = "gradient"
    THEN IF background.gradient
         THEN {[content |-> Append(ops, Op("gradient", NoColor,
                                           FullRect(w, h), 0, "gradient")),
                errors |-> 0]}
         ELSE {[content |-> ops, errors |-> 0]}
    ELSE IF background.image
         THEN DrawImageBackground(ops, w, h, file, background.fit_mode)
         ELSE {[content |-> ops, errors |-> 0]}

(***************************************************************************)
(* Text stage: _add_user_text                                              *)
(***************************************************************************)
\* text colour of the plain path: colors[-1] if len(colors) > 1
PlainTextColor(colors) ==
    IF Len(colors) > 1 THEN Last(colors) ELSE Hex("#333333")

\* Palette indices the text colour fallback reads.
TextColorReads(colors) == IF Len(colors) > 1 THEN {Len(colors) - 1} ELSE {}

\* Palette indices _add_user_text reads: the plain path always resolves the
\* fallback colour, a rich block only when its style carries no colour.
TextReads(req) ==
    IF req.rich_blocks > 0
    THEN IF req.rich_color THEN {} ELSE TextColorReads(req.colors)
    ELSE IF req.user_text > 0 THEN TextColorReads(req.colors)
    ELSE {}

\* Variant of the source selection that prefers the plain text whenever it
\* is non-empty.
TextOpsPlainFirst(width, height, req) ==
    IF req.user_text > 0
    THEN <<Op("text", PlainTextColor(req.colors), FullRect(width, height), 1,
              "plain")>>
    ELSE [k \in 1..req.rich_blocks |->
             Op("text",
                IF req.rich_color THEN Hex("#333333")
                ELSE PlainTextColor(req.colors),
                FullRect(width, height), k, "rich")]

\* What _add_user_text draws when nothing fails: the rich text when blocks
\* are supplied, else the plain text when it is non-empty, else nothing.
\* One operation per text block.
TextOps(width, height, req) ==
    IF req.rich_blocks > 0
    THEN [k \in 1..req.rich_blocks |->
             Op("text",
                IF req.rich_color THEN Hex("#333333")
                ELSE PlainTextColor(req.colors),
                FullRect(width, height), k, "rich")]
    ELSE IF req.user_text > 0
    THEN <<Op("text", PlainTextColor(req.colors), FullRect(width, height), 1,
              "plain")>>
    ELSE <<>>

AddUserText(ops, width, height, req) == ops \o TextOps(width, height, req)

\* Variant of the text stage without the exception handler: a failure
\* leaves the call.
UserTextStageUncaught(ops, width, height, req) ==
    LET all == TextOps(width, height, req)
    IN  {[content |-> ops \o SubSeq(all, 1, j),
          errors |-> 0, raised |-> j < Len(all)] : j \in 0..Len(all)}

\* _add_user_text with its try/except: the text is drawn completely, or
\* an exception (a colour string the drawing call rejects, a failing font
\* or measurement) ends it after j of its operations; the exception is
\* caught and logged, and what was drawn before stays.
UserTextStage(ops, width, height, req) ==
    LET all == TextOps(width, height, req)
    IN  {[content |-> ops \o SubSeq(all, 1, j),
          errors |-> IF j < Len(all) THEN 1 ELSE 0,
          raised |-> FALSE] : j \in 0..Len(all)}

(***************************************************************************)
(* generate_final, one action per stage of the call                        *)
(***************************************************************************)
Layouts == {"left-right", "top-bottom", "center-focused", "mosaic-grid",
            "full-bleed-image"}
\* Layout explored for generate_final, where the layout only selects the
\* text zone: "center-focused", the route's default.
FinalLayouts == {"center-focused"}
FitModes == {"cover", "contain", "stretch"}

\* Background settings a request can carry.
Backgrounds ==
    {NoBackground}
    \cup {[background_type |-> "solid", solid |-> b, gradient |-> FALSE,
           image |-> FALSE, fit_mode |-> "none"] : b \in BOOLEAN}
    \cup {[background_type |-> "gradient", solid |-> FALSE, gradient |-> b,
           image |-> FALSE, fit_mode |-> "none"] : b \in BOOLEAN}
    \cup {[background_type |-> "image", solid |-> FALSE, gradient |-> FALSE,
           image |-> FALSE, fit_mode |-> "none"]}
    \cup {[background_type |-> "image", solid |-> FALSE, gradient |-> FALSE,
           image |-> TRUE, fit_mode |-> m] : m \in FitModes}

\* Image files on disk: an ordinary landscape picture and a very small one.
Pictures == {[w |-> 1200, h |-> 900, px |-> "src"],
             [w |-> 2, h |-> 2, px |-> "src"]}

ImageFiles == {[state |-> "missing", image |-> NoImage],
               [state |-> "corrupt", image |-> NoImage]}
              \cup {[state |-> "ok", image |-> i] : i \in Pictures}

NoPhoto == [given |-> FALSE, file |-> NoFile]
Photos == {NoPhoto} \cup {[given |-> TRUE, file |-> f] : f \in ImageFiles}

FilesFor(background) ==
    IF background.background_type = "image" /\ background.image
    THEN ImageFiles ELSE {NoFile}

NoRequest == [entry |-> "none", mood |-> "none", complexity |-> 0, colors |-> <<>>,
              layout |-> "none", user_text |-> 0, rich_blocks |-> 0,
              rich_color |-> TRUE,
              background |-> NoBackground, show_borders |-> FALSE]
NoCanvas == [w |-> 0, h |-> 0, base |-> NoColor, pasted |-> <<>>,
             at |-> <<0, 0>>, size |-> <<0, 0>>]
NoOutcome == [status |-> "none", width |-> 0, height |-> 0]

\* The route's handler: an exception of generate_final becomes HTTP 500.
ErrorOutcome == [status |-> "error", width |-> 0, height |-> 0]

RenderIdle ==
    /\ pc = "idle" /\ request = NoRequest /\ photo = NoPhoto
    /\ bgFile = NoFile /\ content = <<>> /\ canvas = NoCanvas
    /\ files = {} /\ encoded = {} /\ outcome = NoOutcome /\ warnings = 0

content_width == bookmark_size_px_final[1]
content_height == bookmark_size_px_final[2]

\* generate_final up to the crop of the content area: the canvas is
\* created filled with colors[0] and the content image is cut out of it.
StartFinal ==
    /\ pc = "idle"
    /\ \E c \in 1..5, n \in 1..4, l \in FinalLayouts, t \in 0..1,
          rb \in 0..MaxBlocks, bg \in Backgrounds, sb \in BOOLEAN, ph \in Photos,
          rc \in BOOLEAN :
         /\ rb # 1 => rc
         /\ request' = [entry |-> "final", mood |-> "WARM", complexity |-> c,
                        colors |-> Palette(n), layout |-> l,
                        user_text |-> t, rich_blocks |-> rb,
                        rich_color |-> rc,
                        background |-> bg, show_borders |-> sb]
         /\ photo' = ph
         /\ \E f \in FilesFor(bg) : bgFile' = f
         /\ canvas' = [w |-> content_width + 2 * bleed_px_final,
                       h |-> content_height + 2 * bleed_px_final,
                       base |-> First(Palette(n)), pasted |-> <<>>,
                       at |-> <<0, 0>>,
                       size |-> <<content_width, content_height>>]
         /\ content' = <<Op("base", First(Palette(n)),
                            FullRect(content_width, content_height), 0,
                            "fill")>>
    /\ pc' = "background"
    /\ UNCHANGED <<files, encoded, outcome, warnings>>
    /\ UNCHANGED pureVars

\* Path(user_photo_path).exists()
PhotoExists(ph) == ph.given /\ ph.file.state # "missing"

\* The user-photo branch: open, fit at cover mode, paste at (0, 0); any
\* exception is caught and logged.
ApplyUserPhoto(ops, w, h, ph) ==
    IF ph.file.state # "ok"
    THEN {[content |-> ops, errors |-> 1]}
    ELSE {IF r.raised
          THEN [content |-> ops, errors |-> 1]
          ELSE [content |-> Append(ops,
                    Op("photo", NoColor,
                       <<0, 0, r.img.w - 1, r.img.h - 1>>, 0, r.img.px)),
                errors |-> 0] :
              r \in FitImageToZone(ph.file.image, w, h)}

\* Variant of the default background filled with the last palette colour.
DefaultBackgroundLast(ops, w, h, colors) ==
    Append(ops, Op("default",
                   IF Len(colors) > 0 THEN Last(colors) ELSE Hex("#FFFFFF"),
                   <<0, 0, w, h>>, 0, "fill"))

\* The default background: a rectangle filled with colors[0].
DefaultBackground(ops, w, h, colors) ==
    Append(ops, Op("default",
                   IF Len(colors) > 0 THEN First(colors) ELSE Hex("#FFFFFF"),
                   <<0, 0, w, h>>, 0, "fill"))

\* Variant of the background stage that falls back to the request's
\* background settings when the user photo cannot be applied.
BackgroundStageFallsBack(ops, w, h, req, ph, file) ==
    IF PhotoExists(ph)
    THEN UNION {IF r.errors = 0 THEN {r}
                ELSE IF req.background # NoBackground
                THEN DrawBackground(ops, w, h, req.background, file)
                ELSE {[content |-> DefaultBackground(ops, w, h, req.colors),
                       errors |-> 1]} :
                    r \in ApplyUserPhoto(ops, w, h, ph)}
    ELSE IF req.background # NoBackground
    THEN DrawBackground(ops, w, h, req.background, file)
    ELSE {[content |-> DefaultBackground(ops, w, h, req.colors),
           errors |-> 0]}

\* The background stage of generate_final.
BackgroundStage(ops, w, h, req, ph, file) ==
    IF PhotoExists(ph)
    THEN ApplyUserPhoto(ops, w, h, ph)
    ELSE IF req.background # NoBackground
    THEN DrawBackground(ops, w, h, req.background, file)
    ELSE {[content |-> DefaultBackground(ops, w, h, req.colors),
           errors |-> 0]}

FinalBackground ==
    /\ pc = "background"
    /\ \E r \in BackgroundStage(content, content_width, content_height,
                                request, photo, bgFile) :
         /\ content' = r.content
         /\ warnings' = warnings + r.errors
    /\ pc' = "text"
    /\ UNCHANGED <<request, photo, bgFile, canvas, files, encoded, outcome>>
    /\ UNCHANGED pureVars

FinalText ==
    /\ pc = "text"
    /\ \E r \in UserTextStage(content, content_width, content_height,
                               request) :
         /\ content' = r.content
         /\ warnings' = warnings + r.errors
         /\ IF r.raised
            THEN pc' = "failed" /\ outcome' = ErrorOutcome
            ELSE pc' = "decor" /\ UNCHANGED outcome
    /\ UNCHANGED <<request, photo, bgFile, canvas, files, encoded>>
    /\ UNCHANGED pureVars

\* Variant of the decoration stage that ignores show_borders.
FinalDecorationsAlways(ops, w, h, req) ==
    ops \o AddDecorativeElements(w, h, req.complexity, req.colors)

\* The decoration stage of generate_final: only when show_borders is set.
FinalDecorations(ops, w, h, req) ==
    IF req.show_borders
    THEN ops \o AddDecorativeElements(w, h, req.complexity, req.colors)
    ELSE ops

\* Variant of the paste back that puts the content image at the corner of
\* the canvas.
PasteBackAtOrigin(image, content_image) ==
    [image EXCEPT !.pasted = content_image, !.at = <<0, 0>>]

\* image.paste(content_image, (bleed_px, bleed_px))
PasteBack(image, content_image) ==
    [image EXCEPT !.pasted = content_image,
                  !.at = <<bleed_px_final, bleed_px_final>>]

\* Where the pixel (x, y) of a canvas comes from: the pasted content image
\* (of the size it was cropped with) where that lies, else the base fill.
PixelAt(image, x, y) ==
    IF /\ x >= image.at[1] /\ x < image.at[1] + image.size[1]
       /\ y >= image.at[2] /\ y < image.at[2] + image.size[2]
    THEN [from |-> "content", color |-> NoColor]
    ELSE [from |-> "base", color |-> image.base]

\* Decorations, then the content image is pasted back at (bleed, bleed).
FinalDecor ==
    /\ pc = "decor"
    /\ content' = FinalDecorations(content, content_width, content_height,
                                   request)
    /\ canvas' = PasteBack(canvas, content')
    /\ pc' = "save_png"
    /\ UNCHANGED <<request, photo, bgFile, files, encoded, outcome, warnings>>
    /\ UNCHANGED pureVars

\* What the encoder leaves on disk when image.save raises: nothing, or a
\* partially written file.
FailedSaveLeaves(partial) == {{}, {partial}}

\* Files of the call in the download directory after an exception has
\* left generate_final: nothing is removed.
FilesAfterFailure(present, left) == present \cup left

\* What a completed image.save wrote: the buffer handed to the encoder, its
\* pixel size and the resolution passed along.
Encoding(file, image, xdpi, ydpi) ==
    [file |-> file, buffer |-> image, width |-> image.w, height |-> image.h,
     dpi |-> <<xdpi, ydpi>>]

\* image.save(png_filepath, "PNG", dpi=(FINAL_DPI, FINAL_DPI))
EncodePng(image) == Encoding("png", image, FINAL_DPI, FINAL_DPI)

\* The canvas in this call's state; the save stages take it from here.
FinalImage == [w |-> canvas.w, h |-> canvas.h, base |-> canvas.base,
               pasted |-> canvas.pasted, at |-> canvas.at,
               size |-> canvas.size]

\* Variant of the document encoder that writes at the preview resolution.
EncodePdfAtPreviewDpi(image) ==
    Encoding("pdf", image, PREVIEW_DPI, PREVIEW_DPI)

\* The image is already RGB, so the mode conversion is skipped;
\* pdf_image = image.copy(); pdf_image.save(..., "PDF",
\* resolution=FINAL_DPI, save_all=True)
EncodePdf(image) == Encoding("pdf", image, FINAL_DPI, FINAL_DPI)

\* image.save(png_filepath, "PNG", dpi=...): the raster output.
FinalSavePng ==
    /\ pc = "save_png"
    /\ \/ /\ files' = files \cup {"png"}
          /\ encoded' = encoded \cup {EncodePng(FinalImage)}
          /\ pc' = "save_pdf"
          /\ UNCHANGED outcome
       \/ /\ \E left \in FailedSaveLeaves("png.partial") :
                 files' = FilesAfterFailure(files, left)
          /\ UNCHANGED encoded
          /\ outcome' = ErrorOutcome
          /\ pc' = "failed"
    /\ UNCHANGED <<request, photo, bgFile, content, canvas, warnings>>
    /\ UNCHANGED pureVars

\* pdf_image.save(pdf_filepath, "PDF", ...): the document output, then the
\* return of both paths and the route's FinalGenerationResult.
FinalSavePdf ==
    /\ pc = "save_pdf"
    /\ \/ /\ files' = files \cup {"pdf"}
          /\ encoded' = encoded \cup {EncodePdf(FinalImage)}
          /\ outcome' = [status |-> "ok", width |-> content_width,
                         height |-> content_height]
          /\ pc' = "done"
       \/ /\ \E left \in FailedSaveLeaves("pdf.partial") :
                 files' = FilesAfterFailure(files, left)
          /\ UNCHANGED encoded
          /\ outcome' = ErrorOutcome
          /\ pc' = "failed"
    /\ UNCHANGED <<request, photo, bgFile, content, canvas, warnings>>
    /\ UNCHANGED pureVars

(***************************************************************************)
(* generate_preview                                                        *)
(***************************************************************************)
Moods == {"WARM", "PROFESSIONAL"}

\* outline=colors[1] if len(colors) > 1 else "#CCCCCC"
OutlineColor(colors) == IF Len(colors) > 1 THEN colors[2] ELSE Hex("#CCCCCC")

\* Variant of the mosaic shade index that is not reduced modulo the palette.
MosaicShadeIndexNoWrap(colors, i, j) == i * 2 + j

\* shade_idx = (i * grid_size + j) % len(colors)
MosaicShadeIndex(colors, i, j) == (i * 2 + j) % Len(colors)

\* Palette indices _apply_layout reads.
LayoutReads(layout, colors) ==
    (IF Len(colors) > 0 THEN {0} ELSE {})
        \cup (IF layout \in {"left-right", "top-bottom", "center-focused"}
              THEN (IF Len(colors) > 1 THEN {1} ELSE {})
              ELSE IF layout = "mosaic-grid"
              THEN {MosaicShadeIndex(colors, i, j) : i \in 0..1, j \in 0..1}
                       \cup {0}
              ELSE {})

\* One cell of the 2 x 2 mosaic.
MosaicCell(width, height, colors, i, j) ==
    LET cell_w == (width - 30) \div 2
        cell_h == (height - 30) \div 2
        x1 == 10 + j * cell_w
        y1 == 10 + i * cell_h
        shade_idx == MosaicShadeIndex(colors, i, j)
    IN  OutlinedOp("layout", Lighten(ColorAt(colors, shade_idx), 15),
                   First(colors),
                   <<x1, y1, x1 + cell_w - 5, y1 + cell_h - 5>>, 2)

\* _apply_layout: the placeholder drawing of the layout archetype.
ApplyLayout(width, height, layout, colors) ==
    LET bg_color == IF Len(colors) > 0 THEN First(colors)
                    ELSE Hex("#FFFFFF")
    IN  IF layout = "left-right"
        THEN LET image_width == (width * 45) \div 100
             IN  <<OutlinedOp("layout", Lighten(bg_color, 20),
                              OutlineColor(colors),
                              <<10, 10, image_width - 10, height - 10>>, 2),
                   Op("layout", bg_color,
                      <<image_width, 10, width - 10, height - 10>>, 0,
                      "fill")>>
        ELSE IF layout = "top-bottom"
        THEN LET image_height == (height * 55) \div 100
             IN  <<OutlinedOp("layout", Lighten(bg_color, 20),
                              OutlineColor(colors),
                              <<10, 10, width - 10, image_height - 10>>, 2),
                   Op("layout", bg_color,
                      <<10, image_height, width - 10, height - 10>>, 0,
                      "fill")>>
        ELSE IF layout = "center-focused"
        THEN LET margin == (width * 15) \div 100
             IN  <<OutlinedOp("layout", Lighten(bg_color, 10),
                              OutlineColor(colors),
                              <<margin, margin, width - margin,
                                height - margin>>, 3)>>
        ELSE IF layout = "mosaic-grid"
        THEN <<MosaicCell(width, height, colors, 0, 0),
               MosaicCell(width, height, colors, 0, 1),
               MosaicCell(width, height, colors, 1, 0),
               MosaicCell(width, height, colors, 1, 1)>>
        ELSE <<Op("layout", bg_color, FullRect(width, height), 1, "shade")>>

\* The decoration step of generate_preview: drawn for the tier, always.
PreviewDecorations(ops, w, h, complexity, colors) ==
    ops \o AddDecorativeElements(w, h, complexity, colors)

\* Palette indices one render call reads: the canvas fill colors[0], then
\* what its stages read.
PaletteReads(req, ph) ==
    IF req.entry = "preview"
    THEN {0} \cup LayoutReads(req.layout, req.colors)
             \cup DecorReads(req.complexity, req.colors)
    ELSE {0}
         \cup (IF ~PhotoExists(ph) /\ req.background = NoBackground
                  /\ Len(req.colors) > 0
               THEN {0} ELSE {})
         \cup TextReads(req)
         \cup (IF req.show_borders
               THEN DecorReads(req.complexity, req.colors) ELSE {})

\* generate_preview and its route: the whole call.
GeneratePreview ==
    /\ pc = "idle"
    /\ \E m \in Moods, c \in 1..5, n \in 1..4, l \in Layouts :
         LET width == bookmark_size_px_preview[1]
             height == bookmark_size_px_preview[2]
             colors == Palette(n)
         IN  /\ request' = [entry |-> "preview", mood |-> m,
                            complexity |-> c, colors |-> colors,
                            layout |-> l, user_text |-> 0,
                            rich_blocks |-> 0, rich_color |-> TRUE,
                            background |-> NoBackground,
                            show_borders |-> FALSE]
             /\ canvas' = [w |-> width, h |-> height, base |-> First(colors),
                           pasted |-> <<>>, at |-> <<0, 0>>,
                           size |-> <<width, height>>]
             /\ content' = PreviewDecorations(
                               <<Op("base", First(colors),
                                    FullRect(width, height), 0, "fill")>>
                                   \o ApplyLayout(width, height, l, colors),
                               width, height, c, colors)
             /\ \/ /\ files' = files \cup {"preview"}
                   /\ encoded' = encoded \cup
                          {Encoding("preview",
                                    [canvas' EXCEPT !.pasted = content'],
                                    PREVIEW_DPI, PREVIEW_DPI)}
                   /\ outcome' = [status |-> "ok", width |-> width,
                                  height |-> height]
                   /\ pc' = "preview_done"
                \/ /\ \E left \in FailedSaveLeaves("preview.partial") :
                          files' = FilesAfterFailure(files, left)
                   /\ UNCHANGED encoded
                   /\ outcome' = ErrorOutcome
                   /\ pc' = "failed"
    /\ UNCHANGED <<photo, bgFile, warnings>>
    /\ UNCHANGED pureVars

(***************************************************************************)
(* Font resolver: _load_font                                               *)
(***************************************************************************)
\* font_paths, in the order they are tried.
font_paths ==
    <<"/System/Library/Fonts/STHeiti Medium.ttc",
      "/System/Library/Fonts/STHeiti Light.ttc",
      "/System/Library/Fonts/Hiragino Sans GB.ttc",
      "/System/Library/Fonts/PingFang.ttc",
      "/System/Library/Fonts/Supplemental/Songti.ttc",
      "/usr/share/fonts/truetype/wqy/wqy-microhei.ttc",
      "/usr/share/fonts/truetype/wqy/wqy-zenhei.ttc",
      "/usr/share/fonts/opentype/noto/NotoSansCJK-Regular.ttc",
      "C:/Windows/Fonts/msyh.ttc",
      "C:/Windows/Fonts/simhei.ttf",
      "/usr/share/fonts/truetype/dejavu/DejaVuSans.ttf">>

\* ImageFont.truetype(path, size) succeeds for a sound font file and a
\* positive size; it raises otherwise.
Loads(state, size) == state = "ok" /\ size >= 1

TrueTypeFont(path, size) == [kind |-> "truetype", path |-> path, size |-> size]

\* ImageFont.load_default(): the built-in face.
DefaultFont == [kind |-> "default", path |-> "", size |-> 10]

RECURSIVE LoadFontFromGiveUp(_, _, _, _)
\* Variant of the search that gives up at the first file that fails to
\* load.
LoadFontFromGiveUp(disk, i, size, warned) ==
    IF i > Len(font_paths)
    THEN [font |-> DefaultFont, warnings |-> warned + 2, raised |-> FALSE]
    ELSE IF disk[i] = "absent"
    THEN LoadFontFromGiveUp(disk, i + 1, size, warned)
    ELSE IF Loads(disk[i], size)
    THEN [font |-> TrueTypeFont(font_paths[i], size), warnings |-> warned,
          raised |-> FALSE]
    ELSE [font |-> DefaultFont, warnings |-> warned + 3, raised |-> FALSE]

RECURSIVE LoadFontFrom(_, _, _, _)
\* The loop of _load_font from path i on: disk[i] is the state of file
\* font_paths[i]; a file that fails to load is logged and skipped.
LoadFontFrom(disk, i, size, warned) ==
    IF i > Len(font_paths)
    THEN [font |-> DefaultFont, warnings |-> warned + 2, raised |-> FALSE]
    ELSE IF disk[i] = "absent"
    THEN LoadFontFrom(disk, i + 1, size, warned)
    ELSE IF Loads(disk[i], size)
    THEN [font |-> TrueTypeFont(font_paths[i], size), warnings |-> warned,
          raised |-> FALSE]
    ELSE LoadFontFrom(disk, i + 1, size, warned + 1)

\* _load_font
LoadFont(disk, size) == LoadFontFrom(disk, 1, size, 0)

NoFontIn == [disk |-> <<>>, size |-> 0]
NoFont == [done |-> FALSE, raised |-> FALSE, font |-> [kind |-> "none"],
           warnings |-> 0]
FontIdle == fontIn = NoFontIn /\ fontOut = NoFont

(***************************************************************************)
(* Gradient colours: _interpolate_color                                    *)
(***************************************************************************)
\* A hex colour is the sequence of its six digits (values 0..15) once the
\* leading "#" is stripped.
HexDigits(r, g, b) ==
    <<r \div 16, r % 16, g \div 16, g % 16, b \div 16, b % 16>>

\* _hex_to_rgb: int(hex_color[i:i+2], 16) for i in (0, 2, 4)
HexToRgb(hex) ==
    <<16 * hex[1] + hex[2], 16 * hex[3] + hex[4], 16 * hex[5] + hex[6]>>

\* Variant that reduces the ratio modulo 1 instead of clamping it.
ClampRatioWrap(num, den) == num % den

\* ratio = max(0.0, min(1.0, ratio)), the ratio being num / den
ClampRatio(num, den) == Max(0, Min(den, num))

\* int(color1[c] + (color2[c] - color1[c]) * local_ratio), local_ratio
\* being lnum / den; the value lies between the two channels.
MixChannel(c1, c2, lnum, den) == (c1 * den + (c2 - c1) * lnum) \div den

\* The indices (0-based) of the colours _interpolate_color reads:
\* colors[0] for a single colour, else colors[idx] and
\* colors[min(idx + 1, len(colors) - 1)] with idx = int(segment).
SegmentIndices(colors, num, den) ==
    IF Len(colors) = 1 THEN <<0>>
    ELSE LET num_segments == Len(colors) - 1
             idx == (ClampRatio(num, den) * num_segments) \div den
         IN  <<idx, Min(idx + 1, Len(colors) - 1)>>

\* Variant that takes the lower colour of the last segment at ratio 1.
InterpolateColorLastSegment(colors, num, den) ==
    IF Len(colors) = 1 THEN HexToRgb(colors[1])
    ELSE LET num_segments == Len(colors) - 1
             seg == ClampRatio(num, den) * num_segments
             idx == Min(seg \div den, num_segments - 1)
             lnum == seg % den
             color1 == HexToRgb(colors[idx + 1])
             color2 == HexToRgb(colors[Min(idx + 1, Len(colors) - 1) + 1])
         IN  [c \in 1..3 |-> MixChannel(color1[c], color2[c], lnum, den)]

\* _interpolate_color for the ratio num / den: segment = ratio *
\* num_segments, idx = int(segment), local_ratio = segment - idx.
InterpolateColor(colors, num, den) ==
    IF Len(colors) = 1 THEN HexToRgb(colors[1])
    ELSE LET num_segments == Len(colors) - 1
             seg == ClampRatio(num, den) * num_segments
             idx == SegmentIndices(colors, num, den)
             lnum == seg % den
             color1 == HexToRgb(colors[idx[1] + 1])
             color2 == HexToRgb(colors[idx[2] + 1])
         IN  [c \in 1..3 |-> MixChannel(color1[c], color2[c], lnum, den)]

NoInterpIn == [colors |-> <<>>, num |-> 0, den |-> 1]
NoInterp == [done |-> FALSE, rgb |-> <<>>, idx |-> <<>>]
InterpIdle == interpIn = NoInterpIn /\ interpOut = NoInterp

(***************************************************************************)
(* Text zone: _get_text_area                                               *)
(***************************************************************************)
\* int(x * f) for the decimal factor f = num / den.  Where x * num / den is
\* a whole number q the binary64 product can fall just below q, and int()
\* then gives q - 1; both results are allowed there.
IntScale(x, num, den) ==
    LET p == x * num
        q == IF p >= 0 THEN p \div den ELSE 0 - ((0 - p) \div den)
    IN  IF p > 0 /\ p % den = 0 /\ den \notin {1, 2, 4}
        THEN {q - 1, q} ELSE {q}

\* Optional[int] fields: None is represented by NoneInt; Python's truth test
\* takes None and 0 as absent.
NoneInt == 0 - 1
Truthy(v) == v # NoneInt /\ v # 0

NoTextPosition ==
    [given |-> FALSE, top_margin |-> 0, bottom_margin |-> 0,
     left_margin |-> 0, right_margin |-> 0, width |-> NoneInt,
     height |-> NoneInt, alignment |-> "center", direction |-> "horizontal"]

Area(x_start, y_start, width, height) ==
    [x_start |-> x_start, y_start |-> y_start, width |-> width,
     height |-> height]

\* The override branch of _get_text_area.
OverrideArea(width, height, tp) ==
    LET text_widths ==
            IF Truthy(tp.width) THEN {tp.width}
            ELSE IF tp.direction = "vertical"
            THEN {width - tp.left_margin - tp.right_margin}
            ELSE IntScale(width, 8, 10)
        text_height ==
            IF Truthy(tp.height) THEN tp.height
            ELSE height - tp.top_margin - tp.bottom_margin
    IN  {Area(tp.left_margin, tp.top_margin, tw, text_height) :
             tw \in text_widths}

\* The default zone of "left-right".
LeftRightArea(width, height) ==
    {LET text_width == width - text_x - 20
     IN  Area(text_x, 40, text_width - 20, height - 40) :
         text_x \in {t + 20 : t \in IntScale(width, 48, 100)}}

\* The default zone of "top-bottom".
TopBottomArea(width, height) ==
    {Area(20, text_y_start + 40, width - 40, height - text_y_start - 20) :
         text_y_start \in IntScale(height, 58, 100)}

\* The default zone of "center-focused".
CenteredArea(width, height) ==
    UNION {{Area(margin + 20, text_y_start, width - 2 * margin - 40,
                 height - text_y_start - 20) :
                text_y_start \in
                    {margin + t : t \in IntScale(height - 2 * margin, 65, 100)}} :
               margin \in IntScale(width, 15, 100)}

\* The default zone of "mosaic-grid" and "full-bleed-image"; 0.25 is 1/4.
BottomArea(width, height) ==
    {LET text_y == height - text_height - 20
     IN  Area(20, text_y + 20, width - 40, text_height - 20) :
         text_height \in IntScale(height, 1, 4)}

\* Variant of _get_text_area whose override keeps the x offset of the
\* "left-right" layout.
GetTextAreaKeepsLayoutX(width, height, layout, tp) ==
    IF tp.given
    THEN IF layout = "left-right"
         THEN {Area(a.x_start + l.x_start, a.y_start, a.width, a.height) :
                   a \in OverrideArea(width, height, tp),
                   l \in LeftRightArea(width, height)}
         ELSE OverrideArea(width, height, tp)
    ELSE IF layout = "left-right" THEN LeftRightArea(width, height)
    ELSE IF layout = "top-bottom" THEN TopBottomArea(width, height)
    ELSE IF layout = "center-focused" THEN CenteredArea(width, height)
    ELSE BottomArea(width, height)

\* _get_text_area: the zones the call can return.
GetTextArea(width, height, layout, tp) ==
    IF tp.given THEN OverrideArea(width, height, tp)
    ELSE IF layout = "left-right" THEN LeftRightArea(width, height)
    ELSE IF layout = "top-bottom" THEN TopBottomArea(width, height)
    ELSE IF layout = "center-focused" THEN CenteredArea(width, height)
    ELSE BottomArea(width, height)

NoZoneIn == [width |-> 0, height |-> 0, layout |-> "none",
             text_position |-> NoTextPosition]
NoZone == [done |-> FALSE, area |-> [x_start |-> 0, y_start |-> 0,
                                     width |-> 0, height |-> 0]]
ZoneIdle == zoneIn = NoZoneIn /\ zoneOut = NoZone

(***************************************************************************)
(* Text stage in detail: _add_rich_text, _add_plain_text                   *)
(***************************************************************************)
line_spacing == 20

\* _get_font_size_pixels: the size_map entry of the FontSize value.
GetFontSizePixels(font_size, base_size) ==
    IF font_size = "small" THEN IntScale(base_size, 7, 10)
    ELSE IF font_size = "large" THEN IntScale(base_size, 14, 10)
    ELSE IF font_size = "xlarge" THEN IntScale(base_size, 18, 10)
    ELSE {base_size}

\* Text colour of a block: its own colour, else the palette's last colour.
BlockColor(block, colors) ==
    IF block.color # NoColor THEN block.color ELSE PlainTextColor(colors)

\* One block of _add_rich_text drawn at current_y with a font of font_size:
\* where it started, what the primitive returned, and what it drew.
RenderBlock(block, text_area, current_y, font_size, colors, disk) ==
    LET font == LoadFont(disk, font_size).font
        text_color == BlockColor(block, colors)
        r == IF block.direction = "vertical"
             THEN DrawVerticalText(block.text, text_area, current_y,
                                   font.size, text_color, block.alignment)
             ELSE DrawHorizontalText(block.text, text_area, current_y,
                                     font.size, text_color, block.alignment)
    IN  [start |-> current_y, returned |-> r.y,
         direction |-> block.direction, font |-> font, draws |-> r.draws]

RECURSIVE RichBlocksFromNoGap(_, _, _, _, _, _, _, _)
\* Variant of the block loop without the gap between blocks.
RichBlocksFromNoGap(blocks, k, text_area, current_y, width, colors, disk, rendered) ==
    IF k > Len(blocks) THEN {rendered}
    ELSE UNION
           {LET b == RenderBlock(blocks[k], text_area, current_y, fs, colors,
                                 disk)
            IN  RichBlocksFromNoGap(blocks, k + 1, text_area, b.returned,
                                    width, colors, disk,
                                    Append(rendered, b)) :
                fs \in GetFontSizePixels(blocks[k].font_size,
                                         Max(14, width \div 20))}

RECURSIVE RichBlocksFrom(_, _, _, _, _, _, _, _)
\* The block loop of _add_rich_text from block k on, with the running
\* cursor current_y: every sequence of rendered blocks it can produce.
RichBlocksFrom(blocks, k, text_area, current_y, width, colors, disk, rendered) ==
    IF k > Len(blocks) THEN {rendered}
    ELSE UNION
           {LET b == RenderBlock(blocks[k], text_area, current_y, fs, colors,
                                 disk)
            IN  RichBlocksFrom(blocks, k + 1, text_area,
                               b.returned + line_spacing, width, colors,
                               disk, Append(rendered, b)) :
                fs \in GetFontSizePixels(blocks[k].font_size,
                                         Max(14, width \div 20))}

\* _add_rich_text
AddRichText(width, height, layout, blocks, colors, tp, disk) ==
    UNION {{[area |-> a, blocks |-> bs, draws |-> <<>>,
             font |-> [kind |-> "none"]] :
               bs \in RichBlocksFrom(blocks, 1, a, a.y_start, width, colors,
                                     disk, <<>>)} :
              a \in GetTextArea(width, height, layout, tp)}

\* _wrap_text: wraps at max_width and draws every line at x, one line
\* height apart.
WrapText(text, x, y, max_width, font_size, color) ==
    LET lines == WrapTextLines(text, max_width)
    IN  [k \in 1..Len(lines) |->
            [line |-> lines[k], x |-> x,
             y |-> y + (k - 1) * (font_size + LineGap), color |-> color]]

\* _add_plain_text: direction and alignment come from the override, else
\* horizontal and center.
AddPlainText(width, height, layout, text, colors, tp, disk) ==
    {LET font_size == Max(16, width \div 15)
         font == LoadFont(disk, font_size).font
         text_color == PlainTextColor(colors)
         text_direction == IF tp.given THEN tp.direction ELSE "horizontal"
         text_alignment == IF tp.given THEN tp.alignment ELSE "center"
     IN  [area |-> a, blocks |-> <<>>, font |-> font,
          draws |->
              IF text_direction = "vertical"
              THEN DrawVerticalText(text, a, a.y_start, font.size,
                                    text_color, text_alignment).draws
              ELSE WrapText(text, a.x_start, a.y_start, a.width, font.size,
                            text_color)] :
        a \in GetTextArea(width, height, layout, tp)}

\* _add_user_text in detail: rich text when blocks are supplied, else the
\* plain text when it is not empty, else nothing.
UserTextDetail(width, height, layout, text, colors, blocks, tp, disk) ==
    IF blocks # <<>>
    THEN AddRichText(width, height, layout, blocks, colors, tp, disk)
    ELSE IF text # <<>>
    THEN AddPlainText(width, height, layout, text, colors, tp, disk)
    ELSE {[area |-> NoZone.area, blocks |-> <<>>, draws |-> <<>>,
           font |-> [kind |-> "none"]]}

NoTextIn == [width |-> 0, height |-> 0, layout |-> "none", blocks |-> <<>>,
             text |-> <<>>, colors |-> <<>>,
             text_position |-> NoTextPosition, disk |-> <<>>]
NoText == [done |-> FALSE, area |-> NoZone.area, blocks |-> <<>>,
           draws |-> <<>>, font |-> [kind |-> "none"]]
TextIdle == textIn = NoTextIn /\ textOut = NoText

NoBackgroundIn == [background |-> NoBackground, file |-> NoFile]
NoBackgroundOut == [done |-> FALSE, before |-> <<>>, content |-> <<>>,
                    errors |-> 0]
BackgroundIdle ==
    backgroundIn = NoBackgroundIn /\ backgroundOut = NoBackgroundOut

(***************************************************************************)
(* The generate-final route up to the render call                          *)
(***************************************************************************)
\* The form's complexity is a float; it is carried here in halves, so 11
\* stands for 5.5.  complexity: float = Form(..., ge=1, le=10)
FormAccepts(complexity) == complexity >= 2 /\ complexity <= 20

\* int(complexity)
IntOfHalves(complexity) == complexity \div 2

\* GenerateFinalRequest's field constraints: complexity ge=1 le=5, colors
\* min_items=1 max_items=4.
ValidFinalRequest(complexity, colors) ==
    complexity >= 1 /\ complexity <= 5 /\ colors >= 1 /\ colors <= 4

\* generate_final_bookmark for a valid mood and layout, up to the call of
\* generate_final: the form validation (422 when it fails), the default
\* palette of two colours when none is sent, and the construction of the
\* request, whose ValidationError is not handled by the route.
GenerateFinalRoute(form) ==
    IF ~FormAccepts(form.complexity)
    THEN [status |-> "rejected", tier |-> 0]
    ELSE LET colors == IF form.colors = 0 THEN 2 ELSE form.colors
             tier == IntOfHalves(form.complexity)
         IN  IF ValidFinalRequest(tier, colors)
             THEN [status |-> "render", tier |-> tier]
             ELSE [status |-> "validation_error", tier |-> 0]

NoRouteIn == [complexity |-> 0, colors |-> 0]
NoRouteOut == [done |-> FALSE, status |-> "none", tier |-> 0]
RouteIdle == routeIn = NoRouteIn /\ routeOut = NoRouteOut

(***************************************************************************)
(* Specification of the render calls                                       *)
(***************************************************************************)
Init ==
    /\ FitIdle /\ WrapIdle /\ VertIdle /\ FontIdle /\ InterpIdle
    /\ ZoneIdle /\ TextIdle
    /\ BackgroundIdle /\ RouteIdle /\ RenderIdle

Next ==
    \/ StartFinal
    \/ FinalBackground
    \/ FinalText
    \/ FinalDecor
    \/ FinalSavePng
    \/ FinalSavePdf
    \/ GeneratePreview

Spec == Init /\ [][Next]_vars

(***************************************************************************)
(* Specifications of the pure routines: the inputs are drawn in the        *)
(* initial state and one action applies the routine.                       *)
(***************************************************************************)
Alignments == {"left", "center", "right"}

InitFit ==
    /\ WrapIdle /\ VertIdle /\ FontIdle /\ InterpIdle /\ ZoneIdle /\ TextIdle
    /\ BackgroundIdle /\ RouteIdle
    /\ RenderIdle
    /\ fitIn \in {[image |-> [w |-> iw, h |-> ih, px |-> "src"],
                   tw |-> tw, th |-> th] :
                      iw \in 1..MaxDim, ih \in 1..MaxDim,
                      tw \in 1..MaxDim, th \in 1..MaxDim}
    /\ fitOut = NoFit

FitStep ==
    /\ ~fitOut.done
    /\ \E r \in FitImageToZone(fitIn.image, fitIn.tw, fitIn.th) :
         fitOut' = r
    /\ UNCHANGED <<fitIn, wrapVars, vertVars, fontVars, interpVars, zoneVars,
                   textVars, backgroundVars, routeVars, renderVars>>

SpecFit == InitFit /\ [][FitStep]_vars

\* Texts for wrapping: every sequence of glyph widths up to MaxLen.
WrapTexts == UNION {[1..n -> 1..MaxCharW] : n \in 0..MaxLen}

InitWrap ==
    /\ FitIdle /\ VertIdle /\ FontIdle /\ InterpIdle /\ ZoneIdle /\ TextIdle
    /\ BackgroundIdle /\ RouteIdle
    /\ RenderIdle
    /\ wrapIn \in {[text |-> t,
                    area |-> [x_start |-> 40, y_start |-> 40,
                              width |-> zw, height |-> 400],
                    y |-> 40, font_size |-> 14, alignment |-> a] :
                       t \in WrapTexts,
                       zw \in (Padding - 1)..(Padding + MaxExtra),
                       a \in Alignments}
    /\ wrapOut = NoWrap

WrapStep ==
    /\ ~wrapOut.done
    /\ LET r == DrawHorizontalText(wrapIn.text, wrapIn.area, wrapIn.y,
                                   wrapIn.font_size, Hex("#333333"),
                                   wrapIn.alignment)
       IN  wrapOut' = [done |-> TRUE, lines |-> r.lines,
                       draws |-> r.draws, y |-> r.y]
    /\ UNCHANGED <<fitVars, wrapIn, vertVars, fontVars, interpVars, zoneVars,
                   textVars, backgroundVars, routeVars, renderVars>>

SpecWrap == InitWrap /\ [][WrapStep]_vars

\* Texts for the vertical layout: characters are code points; one family
\* has all characters distinct, the other repeats two characters.
VertTexts == {[i \in 1..n |-> i] : n \in 0..MaxVLen}
             \cup {[i \in 1..n |-> 1 + (i % 2)] : n \in 0..MaxVLen}

InitVert ==
    /\ FitIdle /\ WrapIdle /\ FontIdle /\ InterpIdle /\ ZoneIdle /\ TextIdle
    /\ BackgroundIdle /\ RouteIdle
    /\ RenderIdle
    /\ vertIn \in {[text |-> t,
                    area |-> [x_start |-> 40, y_start |-> 40,
                              width |-> 200, height |-> 400],
                    y |-> 40, font_size |-> fs, alignment |-> a] :
                       t \in VertTexts, fs \in {10, 14}, a \in Alignments}
    /\ vertOut = NoVert

VertStep ==
    /\ ~vertOut.done
    /\ LET r == DrawVerticalText(vertIn.text, vertIn.area, vertIn.y,
                                 vertIn.font_size, Hex("#333333"),
                                 vertIn.alignment)
       IN  vertOut' = [done |-> TRUE, draws |-> r.draws,
                       num_columns |-> r.num_columns, warned |-> r.warned,
                       raised |-> r.raised, y |-> r.y]
    /\ UNCHANGED <<fitVars, wrapVars, vertIn, fontVars, interpVars, zoneVars,
                   textVars, backgroundVars, routeVars, renderVars>>

SpecVert == InitVert /\ [][VertStep]_vars

\* States of the font files: at most MaxPresent of the paths exist, each
\* either sound or failing to load.
FontDisks ==
    {d \in [1..Len(font_paths) -> {"absent", "broken", "ok"}] :
        Cardinality({i \in 1..Len(font_paths) : d[i] # "absent"})
            <= MaxPresent}

InitFont ==
    /\ FitIdle /\ WrapIdle /\ VertIdle /\ InterpIdle /\ ZoneIdle /\ TextIdle
    /\ BackgroundIdle /\ RouteIdle
    /\ RenderIdle
    /\ fontIn \in {[disk |-> d, size |-> sz] : d \in FontDisks,
                                              sz \in {0, 24}}
    /\ fontOut = NoFont

FontStep ==
    /\ ~fontOut.done
    /\ LET r == LoadFont(fontIn.disk, fontIn.size)
       IN  fontOut' = [done |-> TRUE, raised |-> r.raised, font |-> r.font,
                       warnings |-> r.warnings]
    /\ UNCHANGED <<fitVars, wrapVars, vertVars, fontIn, interpVars, zoneVars,
                   textVars, backgroundVars, routeVars, renderVars>>

SpecFont == InitFont /\ [][FontStep]_vars

\* Gradient stops explored.
StopColors == {HexDigits(0, 0, 0), HexDigits(255, 0, 0),
               HexDigits(90, 140, 255), HexDigits(255, 255, 255)}

InitInterp ==
    /\ FitIdle /\ WrapIdle /\ VertIdle /\ FontIdle /\ ZoneIdle /\ TextIdle
    /\ BackgroundIdle /\ RouteIdle
    /\ RenderIdle
    /\ interpIn \in {[colors |-> cs, num |-> n, den |-> RatioDen] :
                         cs \in UNION {[1..k -> StopColors] : k \in 1..MaxStops},
                         n \in (0 - 1)..(RatioDen + 1)}
    /\ interpOut = NoInterp

InterpStep ==
    /\ ~interpOut.done
    /\ interpOut' = [done |-> TRUE,
                     rgb |-> InterpolateColor(interpIn.colors, interpIn.num,
                                              interpIn.den),
                     idx |-> SegmentIndices(interpIn.colors, interpIn.num,
                                            interpIn.den)]
    /\ UNCHANGED <<fitVars, wrapVars, vertVars, fontVars, interpIn, zoneVars,
                   textVars, backgroundVars, routeVars, renderVars>>

SpecInterp == InitInterp /\ [][InterpStep]_vars

Directions == {"horizontal", "vertical"}

\* Text-zone overrides explored: margins, optional width and height (absent,
\* 0 or a size), alignment and direction.
TextPositions ==
    {[given |-> TRUE, top_margin |-> t, bottom_margin |-> b,
      left_margin |-> l, right_margin |-> r, width |-> w, height |-> h,
      alignment |-> a, direction |-> d] :
         t \in {0, 40}, b \in {0, 40}, l \in {0, 40}, r \in {0, 40},
         w \in {NoneInt, 0, 300}, h \in {NoneInt, 0, 500},
         a \in Alignments, d \in Directions}

\* Canvases explored: the preview size, the final content size and a family
\* of 1:3 canvases.
ZoneCanvases ==
    {bookmark_size_px_preview, bookmark_size_px_final}
        \cup {<<100 * i, 300 * i>> : i \in 1..MaxScale}

InitZone ==
    /\ FitIdle /\ WrapIdle /\ VertIdle /\ FontIdle /\ InterpIdle /\ TextIdle
    /\ BackgroundIdle /\ RouteIdle
    /\ RenderIdle
    /\ zoneIn \in {[width |-> c[1], height |-> c[2], layout |-> l,
                     text_position |-> tp] :
                       c \in ZoneCanvases, l \in Layouts,
                       tp \in TextPositions \cup {NoTextPosition}}
    /\ zoneOut = NoZone

ZoneStep ==
    /\ ~zoneOut.done
    /\ \E a \in GetTextArea(zoneIn.width, zoneIn.height, zoneIn.layout,
                             zoneIn.text_position) :
         zoneOut' = [done |-> TRUE, area |-> a]
    /\ UNCHANGED <<fitVars, wrapVars, vertVars, fontVars, interpVars, zoneIn,
                   textVars, backgroundVars, routeVars, renderVars>>

SpecZone == InitZone /\ [][ZoneStep]_vars

\* Font files for the text stage: none of the list installed, or only the
\* last one.
NoFontsDisk == [i \in 1..Len(font_paths) |-> "absent"]
LastFontDisk ==
    [i \in 1..Len(font_paths) |->
        IF i = Len(font_paths) THEN "ok" ELSE "absent"]

\* Texts for the text stage, as glyph advances: empty, two wide glyphs, a
\* dozen glyphs, and a text longer than the vertical capacity.
StageTexts == {<<>>, <<300, 300>>, [i \in 1..12 |-> 60],
               [i \in 1..35 |-> 20]}

\* Blocks explored for rich text.
TextBlocks ==
    {blk \in
        {[text |-> t, font_size |-> fs, direction |-> d,
          alignment |-> "center", color |-> Hex("#333333")] :
             t \in {<<>>, <<300, 300>>, [i \in 1..12 |-> 60]},
             fs \in {"medium", "large"}, d \in Directions} :
        blk.font_size = "large" => Len(blk.text) = 12}

\* Overrides explored for the text stage.
StageOverrides ==
    {[given |-> TRUE, top_margin |-> 40, bottom_margin |-> 40,
      left_margin |-> 40, right_margin |-> 40, width |-> NoneInt,
      height |-> NoneInt, alignment |-> a, direction |-> d] :
         a \in Alignments, d \in Directions}

StageLayouts == {"center-focused", "top-bottom"}

InitText ==
    /\ FitIdle /\ WrapIdle /\ VertIdle /\ FontIdle /\ InterpIdle /\ ZoneIdle
    /\ BackgroundIdle /\ RouteIdle
    /\ RenderIdle
    /\ textIn \in
          {[width |-> content_width, height |-> content_height,
            layout |-> l, blocks |-> bs, text |-> <<>>,
            colors |-> Palette(2), text_position |-> tp, disk |-> dk] :
               l \in StageLayouts,
               bs \in UNION {[1..n -> TextBlocks] : n \in 1..MaxRich},
               tp \in {NoTextPosition,
                       CHOOSE o \in StageOverrides :
                           o.alignment = "left" /\ o.direction = "vertical"},
               dk \in {NoFontsDisk, LastFontDisk}}
          \cup
          {[width |-> content_width, height |-> content_height,
            layout |-> l, blocks |-> <<>>, text |-> t,
            colors |-> Palette(n), text_position |-> tp, disk |-> dk] :
               l \in StageLayouts, t \in StageTexts, n \in 1..2,
               tp \in StageOverrides \cup {NoTextPosition},
               dk \in {NoFontsDisk, LastFontDisk}}
    /\ textOut = NoText

TextStep ==
    /\ ~textOut.done
    /\ \E r \in UserTextDetail(textIn.width, textIn.height, textIn.layout,
                                textIn.text, textIn.colors, textIn.blocks,
                                textIn.text_position, textIn.disk) :
         textOut' = [done |-> TRUE, area |-> r.area, blocks |-> r.blocks,
                     draws |-> r.draws, font |-> r.font]
    /\ UNCHANGED <<fitVars, wrapVars, vertVars, fontVars, interpVars, zoneVars,
                   textIn, backgroundVars, routeVars, renderVars>>

SpecText == InitText /\ [][TextStep]_vars

\* Background settings for one _draw_background call: any tag with any
\* combination of populated payloads.
TaggedBackgrounds ==
    {[background_type |-> t, solid |-> s, gradient |-> g, image |-> FALSE,
      fit_mode |-> "none"] :
         t \in {"solid", "gradient", "image"}, s \in BOOLEAN, g \in BOOLEAN}
    \cup
    {[background_type |-> t, solid |-> s, gradient |-> g, image |-> TRUE,
      fit_mode |-> m] :
         t \in {"solid", "gradient", "image"}, s \in BOOLEAN, g \in BOOLEAN,
         m \in FitModes}

\* The content image the call starts from: the crop of the base canvas.
BaseContent ==
    <<Op("base", First(Palette(2)), FullRect(content_width, content_height),
         0, "fill")>>

InitBackground ==
    /\ FitIdle /\ WrapIdle /\ VertIdle /\ FontIdle /\ InterpIdle /\ ZoneIdle
    /\ TextIdle /\ RouteIdle /\ RenderIdle
    /\ \E bg \in TaggedBackgrounds :
         \E f \in (IF bg.image THEN ImageFiles ELSE {NoFile}) :
             backgroundIn = [background |-> bg, file |-> f]
    /\ backgroundOut = NoBackgroundOut

BackgroundStep ==
    /\ ~backgroundOut.done
    /\ \E r \in DrawBackground(BaseContent, content_width, content_height,
                                backgroundIn.background, backgroundIn.file) :
         backgroundOut' = [done |-> TRUE, before |-> BaseContent,
                           content |-> r.content, errors |-> r.errors]
    /\ UNCHANGED <<fitVars, wrapVars, vertVars, fontVars, interpVars, zoneVars,
                   textVars, backgroundIn, routeVars, renderVars>>

SpecBackground == InitBackground /\ [][BackgroundStep]_vars

\* Form fields sent to the route: complexities from 0.5 to 10.5 in halves
\* and up to five colours.
RouteForms ==
    {[complexity |-> c, colors |-> n] : c \in 1..21, n \in 0..5}

InitRoute ==
    /\ FitIdle /\ WrapIdle /\ VertIdle /\ FontIdle /\ InterpIdle /\ ZoneIdle
    /\ TextIdle /\ BackgroundIdle /\ RenderIdle
    /\ routeIn \in RouteForms
    /\ routeOut = NoRouteOut

RouteStep ==
    /\ ~routeOut.done
    /\ LET r == GenerateFinalRoute(routeIn)
       IN  routeOut' = [done |-> TRUE, status |-> r.status, tier |-> r.tier]
    /\ UNCHANGED <<fitVars, wrapVars, vertVars, fontVars, interpVars, zoneVars,
                   textVars, backgroundVars, routeIn, renderVars>>

SpecRoute == InitRoute /\ [][RouteStep]_vars

(***************************************************************************)
(* Claims                                                                  *)
(***************************************************************************)
KindsDrawn(ops) == {ops[i].kind : i \in 1..Len(ops)}
CharsDrawn(draws) == [k \in 1..Len(draws) |-> draws[k].ch]
DrawsInColumn(draws, c) == {k \in 1..Len(draws) : draws[k].col = c}
AfterBackground == pc \in {"text", "decor", "save_png", "save_pdf", "done",
                           "failed"}
AfterDecor == pc \in {"save_png", "save_pdf", "done", "failed"}

\* C1: for every source image of at least 1 x 1 and every target of at
\* least 1 x 1, fit_to_zone returns an image of exactly the target size, and
\* the crop rectangle it hands to the scaling step is never empty, whichever
\* branch is taken.  (Stated as claimed; the code violates it.)
C1_FitExactSize ==
    fitOut.done =>
        /\ ~fitOut.raised
        /\ fitOut.img.w = fitIn.tw /\ fitOut.img.h = fitIn.th
        /\ fitOut.crop.w >= 1 /\ fitOut.crop.h >= 1

C2_EveryCharFitsZone ==
    \A i \in 1..Len(wrapIn.text) : wrapIn.text[i] <= wrapIn.area.width
C2_EveryCharFitsLimit ==
    \A i \in 1..Len(wrapIn.text) :
        wrapIn.text[i] <= wrapIn.area.width - 20
C2_LinesWithinLimit ==
    \A k \in 1..Len(wrapOut.lines) :
        TextWidth(wrapOut.lines[k]) <= wrapIn.area.width - 20

\* C2 as claimed: whenever the zone is at least as wide as one character,
\* every line of the wrapping step of render_horizontal measures at most
\* the zone width minus 20.
C2_LinesFitZone ==
    (wrapOut.done /\ C2_EveryCharFitsZone) => C2_LinesWithinLimit

\* C2 as amended: whenever the zone width minus 20 is at least the width of
\* every character of the text, every line of the wrapping step of
\* render_horizontal measures at most the zone width minus 20.
C2_LinesFitWhenCharsFit ==
    (wrapOut.done /\ C2_EveryCharFitsLimit) => C2_LinesWithinLimit

\* C2 witness: a text whose characters all fit the limit was wrapped into
\* several lines.
C2_Witness ==
    /\ wrapOut.done /\ C2_EveryCharFitsLimit
    /\ Len(wrapOut.lines) >= 2
    /\ Len(wrapIn.text) = MaxLen

\* C3: a vertical text longer than 30 characters is truncated, not refused:
\* exactly its first 30 characters are drawn, in 3 columns, a warning is
\* logged and the call returns normally; up to 30 characters every
\* character is drawn and no warning is logged.
C3_VerticalTruncates ==
    vertOut.done =>
        /\ ~vertOut.raised
        /\ Len(vertIn.text) > 30 =>
              /\ CharsDrawn(vertOut.draws) = SubSeq(vertIn.text, 1, 30)
              /\ vertOut.num_columns = 3
              /\ vertOut.warned
        /\ Len(vertIn.text) <= 30 =>
              /\ CharsDrawn(vertOut.draws) = vertIn.text
              /\ ~vertOut.warned

\* C3 witness: a text of more than 30 characters was laid out and the
\* warning logged.
C3_Witness ==
    vertOut.done /\ Len(vertIn.text) > 30 /\ vertOut.warned
        /\ Len(vertOut.draws) = 30

\* C4: for a text of n >= 1 characters the number of columns drawn is
\* min(ceil(n / 10), 3), every column holds at most 10 characters and every
\* column but the last exactly 10; for n <= 10 there is one column with all
\* n characters top to bottom in input order; for n = 0 nothing is drawn.
C4_VerticalColumns ==
    vertOut.done =>
        LET n == Len(vertIn.text)
            d == vertOut.draws
            cols == {d[k].col : k \in 1..Len(d)}
            expected == Min((n + 9) \div 10, 3)
        IN  /\ n >= 1 => /\ vertOut.num_columns = expected
                         /\ cols = 0..(expected - 1)
            /\ \A c \in cols :
                  /\ Cardinality(DrawsInColumn(d, c)) <= 10
                  /\ c + 1 < Cardinality(cols) =>
                        Cardinality(DrawsInColumn(d, c)) = 10
            /\ (n >= 1 /\ n <= 10) =>
                  /\ CharsDrawn(d) = vertIn.text
                  /\ \A k \in 1..Len(d) :
                        /\ d[k].col = 0 /\ d[k].row = k - 1
                        /\ k > 1 => /\ d[k].y > d[k - 1].y
                                    /\ d[k].x = d[k - 1].x
            /\ n = 0 => (d = <<>> /\ vertOut.num_columns = 0)

\* C4 witness: a text of 7 characters was drawn in a single column.
C4_Witness ==
    vertOut.done /\ Len(vertIn.text) = 7 /\ vertOut.num_columns = 1
        /\ Len(vertOut.draws) = 7

\* C5: a render_final call whose raster or document encoding fails
\* propagates the failure and leaves no output file of the call available,
\* in particular no raster without its document.  (Stated as claimed; the
\* code violates it.)
C5_AtomicFailure ==
    (request.entry = "final" /\ outcome.status = "error") =>
        files \cap {"png", "pdf"} = {}

\* C6: when a readable user photo is supplied to render_final, the content
\* area is filled with the photo cover-fitted to the full content size, no
\* BackgroundSpec is applied, and only text and decorations are drawn after
\* the photo.  (Stated as claimed; the code violates it.)
C6_PhotoReplacesBackground ==
    (request.entry = "final" /\ photo.given /\ photo.file.state = "ok"
        /\ AfterBackground) =>
        /\ Len(content) >= 2
        /\ content[2].kind = "photo" /\ content[2].px = "src"
        /\ content[2].rect = FullRect(content_width, content_height)
        /\ KindsDrawn(content)
               \cap {"solid", "gradient", "image", "default"} = {}
        /\ \A i \in 3..Len(content) :
              content[i].kind \in TextKinds \cup OrnamentKinds

C7_ImageBackgroundChosen ==
    /\ request.entry = "final" /\ ~PhotoExists(photo)
    /\ request.background.background_type = "image"
    /\ request.background.image
C7_FailedImageStep ==
    /\ pc = "background" /\ C7_ImageBackgroundChosen
    /\ (bgFile.state # "ok" \/ warnings' > warnings)

\* C7: a failure to load or process the background image is not fatal and
\* leaves the content unchanged: the step that fails changes no pixel of the
\* content, raises nothing to the caller, and the render goes on to the
\* text stage.
C7_ImageFailureLeavesContent ==
    [][C7_FailedImageStep =>
          (content' = content /\ pc' = "text" /\ outcome' = outcome)]_vars

\* C7 witness: a render whose background image file was absent completed
\* with both outputs.
C7_Witness ==
    /\ C7_ImageBackgroundChosen /\ bgFile.state = "missing"
    /\ pc = "done" /\ outcome.status = "ok" /\ warnings = 1
    /\ request.user_text = 1 /\ request.show_borders

\* C8: with show_borders set, which ornament categories are drawn depends on
\* the tier alone and is cumulative: border iff tier >= 2, corner accents
\* iff tier >= 3, dot markers iff tier >= 4, divider iff tier >= 5.
C8_OrnamentsByTier ==
    (request.entry = "final" /\ request.show_borders /\ AfterDecor) =>
        LET drawn == KindsDrawn(content) \cap OrnamentKinds
            t == request.complexity
        IN  /\ "border" \in drawn <=> t >= 2
            /\ "corner" \in drawn <=> t >= 3
            /\ "dot" \in drawn <=> t >= 4
            /\ "divider" \in drawn <=> t >= 5

\* C8 witness: a final render at tier 5 with show_borders drew all four
\* ornament categories.
C8_Witness ==
    /\ request.entry = "final" /\ request.show_borders /\ pc = "done"
    /\ request.complexity = 5
    /\ OrnamentKinds \subseteq KindsDrawn(content)

\* C9 as claimed: in every render of either entry point, if the caller has
\* not set the opt-in flag, no ornament is drawn at any tier.
C9_NoOrnamentWithoutOptIn ==
    (request.entry # "none" /\ ~request.show_borders) =>
        KindsDrawn(content) \cap OrnamentKinds = {}

\* C9 as amended: in every render of render_final, if the caller has not
\* set the opt-in flag, no ornament is drawn at any tier.
C9_FinalNoOrnamentWithoutOptIn ==
    (request.entry = "final" /\ ~request.show_borders) =>
        KindsDrawn(content) \cap OrnamentKinds = {}

\* C9 witness: a final render at tier 5 without the flag completed with no
\* ornament drawn.
C9_Witness ==
    /\ request.entry = "final" /\ ~request.show_borders /\ pc = "done"
    /\ request.complexity = 5
    /\ KindsDrawn(content) \cap OrnamentKinds = {}

\* C10: render_final with no user photo and no BackgroundSpec fills the
\* whole content area with palette[0] before text and decorations: the fill
\* covers every content pixel and only text and ornaments are drawn on it.
C10_DefaultBackground ==
    (request.entry = "final" /\ ~PhotoExists(photo)
        /\ request.background = NoBackground /\ AfterBackground) =>
        /\ Len(content) >= 2
        /\ content[2].kind = "default" /\ content[2].px = "fill"
        /\ content[2].color = request.colors[1]
        /\ Covers(content[2].rect, content_width, content_height)
        /\ \A i \in 3..Len(content) :
              content[i].kind \in TextKinds \cup OrnamentKinds

\* C10 witness: such a render with a 2-colour palette completed with text
\* and ornaments drawn over the fill.
C10_Witness ==
    /\ request.entry = "final" /\ ~photo.given
    /\ request.background = NoBackground /\ pc = "done"
    /\ Len(request.colors) = 2 /\ request.show_borders
    /\ request.complexity = 5 /\ request.user_text = 1
    /\ Len(content) > 3

\* C11: when render_final completes, the raster and the document were
\* encoded from the same final pixel buffer (nothing was drawn between the two
\* encodes), both are 778 x 2195 pixels (content size plus twice the bleed)
\* and both carry 300 DPI.
C11_SameBufferBothOutputs ==
    (request.entry = "final" /\ pc = "done") =>
        \E p \in encoded, d \in encoded :
            /\ p.file = "png" /\ d.file = "pdf"
            /\ p.buffer = d.buffer /\ d.buffer = canvas
            /\ p.width = 778 /\ p.height = 2195
            /\ d.width = 778 /\ d.height = 2195
            /\ p.dpi = <<300, 300>> /\ d.dpi = <<300, 300>>

\* C11 witness: a final render with text and ornaments wrote both outputs.
C11_Witness ==
    /\ request.entry = "final" /\ pc = "done" /\ files = {"png", "pdf"}
    /\ Cardinality(encoded) = 2
    /\ request.user_text = 1 /\ request.show_borders
    /\ request.complexity = 3

C12_Qualifying ==
    {i \in 1..Len(font_paths) :
        fontIn.disk[i] = "ok" /\ fontIn.size >= 1}

\* C12: the font resolver returns the face of the first path of the list
\* that exists and loads at the requested size, skipping absent files and
\* files that fail to load; with no such path it returns the built-in face;
\* it never raises.
C12_FirstLoadableFont ==
    fontOut.done =>
        /\ ~fontOut.raised
        /\ C12_Qualifying = {} => fontOut.font.kind = "default"
        /\ C12_Qualifying # {} =>
              \E i \in C12_Qualifying :
                  /\ \A j \in C12_Qualifying : i <= j
                  /\ fontOut.font.kind = "truetype"
                  /\ fontOut.font.path = font_paths[i]
                  /\ fontOut.font.size = fontIn.size

\* C12 witness: a file that exists but fails to load was skipped and a later
\* path of the list was returned.
C12_Witness ==
    /\ fontOut.done /\ fontOut.font.kind = "truetype"
    /\ \E i, j \in 1..Len(font_paths) :
          /\ i < j /\ fontIn.disk[i] = "broken"
          /\ fontOut.font.path = font_paths[j]

\* C13: for every list of at least 2 colours, interpolation at ratio 0
\* returns the first colour and at ratio 1 the last colour, channel for
\* channel.
C13_InterpolationEndpoints ==
    (interpOut.done /\ Len(interpIn.colors) >= 2) =>
        /\ interpIn.num = 0 =>
              \A c \in 1..3 :
                  interpOut.rgb[c] = 16 * interpIn.colors[1][2 * c - 1]
                                        + interpIn.colors[1][2 * c]
        /\ interpIn.num = interpIn.den =>
              LET last == interpIn.colors[Len(interpIn.colors)]
              IN  \A c \in 1..3 :
                      interpOut.rgb[c] = 16 * last[2 * c - 1] + last[2 * c]

\* C13 witness: ratio 1 over three distinct colours returned the last one.
C13_Witness ==
    /\ interpOut.done /\ Len(interpIn.colors) = 3
    /\ interpIn.num = interpIn.den
    /\ interpIn.colors[1] # interpIn.colors[3]
    /\ interpIn.colors[2] # interpIn.colors[3]
    /\ interpOut.rgb = <<90, 140, 255>>

\* C14: a supplied text-zone override replaces the computed zone entirely:
\* the zone returned is one every layout archetype returns for the same
\* override and canvas, with x_start the left margin, y_start the top margin,
\* height the explicit height or else the canvas height minus the top and
\* bottom margins, and width the explicit width or else the width computed
\* for the direction (for vertical text the canvas width minus the left and
\* right margins).  A width or height of 0 counts as not given.
C14_OverrideReplacesZone ==
    (zoneOut.done /\ zoneIn.text_position.given) =>
        LET tp == zoneIn.text_position
            a == zoneOut.area
        IN  /\ \A l \in Layouts :
                  a \in GetTextArea(zoneIn.width, zoneIn.height, l, tp)
            /\ a.x_start = tp.left_margin
            /\ a.y_start = tp.top_margin
            /\ a.height = IF tp.height \notin {NoneInt, 0} THEN tp.height
                          ELSE zoneIn.height - tp.top_margin
                                   - tp.bottom_margin
            /\ tp.width \notin {NoneInt, 0} => a.width = tp.width
            /\ (tp.width \in {NoneInt, 0} /\ tp.direction = "vertical") =>
                  a.width = zoneIn.width - tp.left_margin - tp.right_margin
            /\ (tp.width \in {NoneInt, 0} /\ tp.direction = "horizontal") =>
                  /\ 10 * a.width <= 8 * zoneIn.width
                  /\ 10 * (a.width + 2) > 8 * zoneIn.width

\* C14 witness: an override with margins and no explicit size was resolved
\* for the "left-right" layout on the final content canvas.
C14_Witness ==
    /\ zoneOut.done /\ zoneIn.text_position.given
    /\ zoneIn.layout = "left-right"
    /\ zoneIn.width = 708 /\ zoneIn.height = 2125
    /\ zoneIn.text_position.width = NoneInt
    /\ zoneIn.text_position.left_margin = 40
    /\ zoneOut.area = Area(40, 40, 566, 2045)

\* C16: for every layout archetype the default text zone (no override) is a
\* sub-rectangle of the canvas: positive size at the final content size, and
\* for every canvas where the size is positive, x_start >= 0, y_start >= 0,
\* x_start + width <= canvas width and y_start + height <= canvas height.
\* (Stated as claimed; the code violates it.)
C16_DefaultZoneInsideCanvas ==
    (zoneOut.done /\ ~zoneIn.text_position.given) =>
        LET a == zoneOut.area
        IN  /\ (zoneIn.width = 708 /\ zoneIn.height = 2125) =>
                  (a.width > 0 /\ a.height > 0)
            /\ (a.width > 0 /\ a.height > 0) =>
                  /\ a.x_start >= 0 /\ a.y_start >= 0
                  /\ a.x_start + a.width <= zoneIn.width
                  /\ a.y_start + a.height <= zoneIn.height

\* C15: render_preview returns exactly the configured preview size, 170 x 510
\* pixels for 60 mm x 180 mm at 72 DPI, whatever the mood, complexity,
\* colours and layout, and the buffer it encodes has that size.
C15_PreviewSize ==
    (request.entry = "preview" /\ outcome.status = "ok") =>
        /\ outcome.width = 170 /\ outcome.height = 510
        /\ \A e \in encoded : e.width = 170 /\ e.height = 510

\* C15 witness: a preview of the mosaic layout at tier 5 with four colours
\* was returned.
C15_Witness ==
    /\ request.entry = "preview" /\ outcome.status = "ok"
    /\ request.layout = "mosaic-grid" /\ request.complexity = 5
    /\ Len(request.colors) = 4 /\ request.mood = "PROFESSIONAL"
    /\ encoded # {}

\* C19: whenever dot markers are drawn (tier >= 4), they are coloured from
\* palette[2] if the palette has at least 3 entries, else from the accent
\* colour (palette[1] if present, else palette[0]).  (Stated as claimed; the
\* code violates it.)
C19_DotColour ==
    \A i \in 1..Len(content) :
        content[i].kind = "dot" =>
            content[i].color =
                IF Len(request.colors) >= 3 THEN request.colors[3]
                ELSE IF Len(request.colors) >= 2 THEN request.colors[2]
                ELSE request.colors[1]

\* C20: in vertical layout the character at index i (0-based, after
\* truncation) is drawn in column i div 10 at row i mod 10; column c is at
\* x = block start x + c * column pitch, so x grows with c, and row r is at
\* y = cursor + r * (font size + 8).
C20_VerticalGrid ==
    vertOut.done =>
        LET d == vertOut.draws
            pitch == IF vertIn.font_size >= 12 THEN vertIn.font_size ELSE 12
        IN  \A k \in 1..Len(d) :
                /\ d[k].ch = vertIn.text[k]
                /\ d[k].col = (k - 1) \div 10
                /\ d[k].row = (k - 1) % 10
                /\ d[k].x = d[1].x + d[k].col * pitch
                /\ d[k].y = vertIn.y + d[k].row * (vertIn.font_size + 8)
                /\ \A j \in 1..Len(d) :
                      d[j].col < d[k].col => d[j].x < d[k].x

\* C20 witness: a text of 25 characters was drawn, its last character in
\* column 2 at row 4.
C20_Witness ==
    /\ vertOut.done /\ Len(vertIn.text) = 25 /\ Len(vertOut.draws) = 25
    /\ vertOut.draws[25].col = 2 /\ vertOut.draws[25].row = 4
    /\ vertOut.draws[25].x > vertOut.draws[1].x

RECURSIVE C17_Spelled(_, _)
\* The characters a block's draw calls spell, in call order.
C17_Spelled(block, k) ==
    IF k > Len(block.draws) THEN <<>>
    ELSE (IF block.direction = "vertical" THEN <<block.draws[k].ch>>
          ELSE block.draws[k].line) \o C17_Spelled(block, k + 1)

\* C17: rich-text blocks are rendered in list order with one running cursor:
\* the first block starts at the zone's y_start, block k+1 starts at exactly
\* the cursor returned for block k plus 20, the cursor never decreases and
\* the starts of consecutive blocks strictly increase, for any mix of
\* horizontal and vertical blocks, empty ones included.
C17_RunningCursor ==
    (textOut.done /\ textIn.blocks # <<>>) =>
        LET b == textOut.blocks
        IN  /\ Len(b) = Len(textIn.blocks)
            /\ b[1].start = textOut.area.y_start
            /\ \A k \in 1..Len(b) :
                  /\ b[k].direction = textIn.blocks[k].direction
                  /\ C17_Spelled(b[k], 1) = textIn.blocks[k].text
                  /\ b[k].returned >= b[k].start
                  /\ k < Len(b) =>
                        /\ b[k + 1].start = b[k].returned + 20
                        /\ b[k + 1].start > b[k].start

\* C17 witness: three blocks, an empty horizontal one between a vertical and
\* a wrapped horizontal one, were rendered.
C17_Witness ==
    /\ textOut.done /\ Len(textOut.blocks) = 3
    /\ textIn.blocks[1].direction = "vertical"
    /\ Len(textOut.blocks[1].draws) = 12
    /\ textIn.blocks[2].direction = "horizontal"
    /\ textIn.blocks[2].text = <<>>
    /\ textIn.blocks[3].direction = "horizontal"
    /\ Len(textOut.blocks[3].draws) >= 2
    /\ textOut.blocks[3].start = textOut.blocks[2].start + 20

\* C18: the plain-text fallback draws what the primitives of rich text draw
\* for the same text, zone, font and alignment (default center): for the
\* horizontal direction the lines and the position of every line are those
\* of render_horizontal, for the vertical direction those of
\* render_vertical.  (Stated as claimed; the code violates it.)
C18_PlainUsesPrimitives ==
    (textOut.done /\ textIn.blocks = <<>> /\ textIn.text # <<>>) =>
        LET tp == textIn.text_position
            direction == IF tp.given THEN tp.direction ELSE "horizontal"
            alignment == IF tp.given THEN tp.alignment ELSE "center"
            color == IF Len(textIn.colors) > 1
                     THEN textIn.colors[Len(textIn.colors)]
                     ELSE Hex("#333333")
        IN  textOut.draws =
                IF direction = "vertical"
                THEN DrawVerticalText(textIn.text, textOut.area,
                                      textOut.area.y_start,
                                      textOut.font.size, color,
                                      alignment).draws
                ELSE DrawHorizontalText(textIn.text, textOut.area,
                                        textOut.area.y_start,
                                        textOut.font.size, color,
                                        alignment).draws


\* C21 (as claimed): the first 10 characters of a vertical block occupy its
\* rightmost column and each following group of 10 characters is placed in
\* the column immediately to its left.  The code violates it.
C21_RightToLeft ==
    vertOut.done =>
        LET d == vertOut.draws
            pitch == IF vertIn.font_size >= 12 THEN vertIn.font_size ELSE 12
        IN  \A k \in 1..Len(d) :
                /\ \A j \in 1..Len(d) : k <= 10 => d[j].x <= d[k].x
                /\ k + 10 <= Len(d) => d[k + 10].x = d[k].x - pitch

\* C21 (amended): vertical blocks are column-major, top-to-bottom and
\* left-to-right: the character at index i of the (truncated) text is
\* drawn in the column i div 10 pitches to the right of the leftmost
\* column, i mod 10 rows below the cursor; so the first 10 characters
\* occupy the leftmost column and each following group of 10 is placed in
\* the column immediately to its right.
C21_LeftToRight ==
    vertOut.done =>
        LET d == vertOut.draws
            pitch == IF vertIn.font_size >= 12 THEN vertIn.font_size ELSE 12
            n == IF Len(vertIn.text) > 30 THEN 30 ELSE Len(vertIn.text)
            leftmost == CHOOSE x \in {d[k].x : k \in 1..Len(d)} :
                            \A k \in 1..Len(d) : x <= d[k].x
        IN  /\ Len(d) = n
            /\ \A i \in 0..(n - 1) :
                  \E k \in 1..Len(d) :
                      /\ d[k].ch = vertIn.text[i + 1]
                      /\ d[k].x = leftmost + (i \div 10) * pitch
                      /\ d[k].y = vertIn.y + (i % 10) * (vertIn.font_size + 8)
            /\ \A k \in 1..Len(d) :
                  /\ k + 10 <= Len(d) => d[k + 10].x = d[k].x + pitch
                  /\ (k < Len(d) /\ k % 10 # 0) =>
                        d[k + 1].x = d[k].x /\ d[k + 1].y > d[k].y

\* C21 witness: a text of 25 distinct characters was drawn in three
\* columns, the second group one pitch to the right of the first.
C21_Witness ==
    /\ vertOut.done /\ Len(vertOut.draws) = 25 /\ vertOut.num_columns = 3
    /\ vertIn.text[25] = 25
    /\ vertOut.draws[11].x > vertOut.draws[10].x
    /\ vertOut.draws[21].x > vertOut.draws[11].x


\* The payload the tag of a background names.
C22_TaggedPayload(bg) ==
    IF bg.background_type = "solid" THEN bg.solid
    ELSE IF bg.background_type = "gradient" THEN bg.gradient
    ELSE bg.image

\* The background with every payload but the tagged one removed.
C22_OnlyTagged(bg) ==
    [background_type |-> bg.background_type,
     solid |-> bg.background_type = "solid" /\ bg.solid,
     gradient |-> bg.background_type = "gradient" /\ bg.gradient,
     image |-> bg.background_type = "image" /\ bg.image,
     fit_mode |-> IF bg.background_type = "image" /\ bg.image
                  THEN bg.fit_mode ELSE "none"]

\* C22: the background step dispatches on the tag alone: only the variant
\* the tag names is drawn (solid: one flat fill covering the content image;
\* gradient: the gradient fill; image: the image composite), the payloads
\* of the other variants do not change the result, and when the payload of
\* the tagged variant is absent the content image is left as it was.
C22_DispatchOnTag ==
    backgroundOut.done =>
        LET bg == backgroundIn.background
            w == content_width
            h == content_height
            old == backgroundOut.before
            new == backgroundOut.content
            added == SubSeq(new, Len(old) + 1, Len(new))
        IN  /\ SubSeq(new, 1, Len(old)) = old
            /\ \A k \in 1..Len(added) : added[k].kind = bg.background_type
            /\ [content |-> new, errors |-> backgroundOut.errors]
                  \in DrawBackground(old, w, h, C22_OnlyTagged(bg),
                                     IF bg.background_type = "image"
                                     THEN backgroundIn.file ELSE NoFile)
            /\ ~C22_TaggedPayload(bg) => new = old
            /\ (bg.background_type = "solid" /\ bg.solid) =>
                  /\ Len(added) = 1 /\ added[1].px = "fill"
                  /\ Covers(added[1].rect, w, h)
            /\ (bg.background_type = "gradient" /\ bg.gradient) =>
                  /\ Len(added) = 1 /\ added[1].px = "gradient"
                  /\ Covers(added[1].rect, w, h)
            /\ (bg.background_type = "image" /\ bg.image) =>
                  \/ new = old /\ backgroundOut.errors > 0
                  \/ Len(added) = 1 /\ backgroundOut.errors = 0

\* C22 witness: a gradient-tagged background that also carries a solid and
\* an image payload drew the gradient and nothing else.
C22_Witness ==
    /\ backgroundOut.done
    /\ backgroundIn.background.background_type = "gradient"
    /\ backgroundIn.background.solid /\ backgroundIn.background.gradient
    /\ backgroundIn.background.image
    /\ backgroundIn.file.state = "ok"
    /\ Len(backgroundOut.content) = Len(backgroundOut.before) + 1
    /\ backgroundOut.content[Len(backgroundOut.content)].kind = "gradient"


\* C23: interpolation clamps: for every colour list of length N >= 1 and
\* every ratio, below 0 and above 1 included, the colour indices read lie in
\* 0..N-1, the result is the result for the ratio clamped to [0, 1], a
\* single colour is returned as it is, and every channel lies between the
\* channels of the two colours read (hence in 0..255).
C23_InterpolationClamps ==
    interpOut.done =>
        LET cs == interpIn.colors
            N == Len(cs)
            clamped == IF interpIn.num < 0 THEN 0
                       ELSE IF interpIn.num > interpIn.den THEN interpIn.den
                       ELSE interpIn.num
            Channel(hex, c) == 16 * hex[2 * c - 1] + hex[2 * c]
            ix == interpOut.idx
        IN  /\ \A k \in 1..Len(ix) : ix[k] >= 0 /\ ix[k] <= N - 1
            /\ interpOut.rgb = InterpolateColor(cs, clamped, interpIn.den)
            /\ N = 1 =>
                  \A c \in 1..3 : interpOut.rgb[c] = Channel(cs[1], c)
            /\ \A c \in 1..3 :
                  LET lo == Channel(cs[ix[1] + 1], c)
                      hi == Channel(cs[ix[Len(ix)] + 1], c)
                  IN  /\ interpOut.rgb[c] >= Min(lo, hi)
                      /\ interpOut.rgb[c] <= Max(lo, hi)
                      /\ interpOut.rgb[c] \in 0..255

\* C23 witness: a ratio below 0 over three colours returned the first
\* colour, reading indices 0 and 1.
C23_Witness ==
    /\ interpOut.done /\ Len(interpIn.colors) = 3 /\ interpIn.num < 0
    /\ interpIn.colors[1] = <<5, 10, 8, 12, 15, 15>>
    /\ interpIn.colors[2] = <<0, 0, 0, 0, 0, 0>>
    /\ interpOut.rgb = <<90, 140, 255>>
    /\ interpOut.idx = <<0, 1>>


\* The palette colours a drawing operation uses (fill and outline).
C24_PaletteColoursOf(op) ==
    {c \in {Hex(op.color.hex), Hex(op.outline.hex)} :
         \E k \in 1..Len(AllColors) : AllColors[k] = c}

\* C24: palette accesses are always in bounds: for every palette of length
\* 1..4, every layout, every tier 1..5 and both text paths, every palette
\* index a preview or final render reads lies within the palette, and every
\* palette colour drawn is the colour at one of those indices.
C24_PaletteInBounds ==
    request.entry # "none" =>
        LET colors == request.colors
            reads == PaletteReads(request, photo)
        IN  /\ \A i \in reads : i >= 0 /\ i <= Len(colors) - 1
            /\ \A k \in 1..Len(content) :
                  /\ content[k].kind \in {"base", "default", "layout", "text"}
                                          \cup OrnamentKinds =>
                        content[k].color # NoColor
                  /\ \A c \in C24_PaletteColoursOf(content[k]) :
                        \E i \in reads : i + 1 \in 1..Len(colors)
                                            /\ colors[i + 1] = c

\* C24 witness: a preview of the mosaic layout with a three-colour palette
\* at tier 5 shaded its fourth cell with palette entry 0 again and drew
\* the dots with the last entry.
C24_Witness ==
    /\ pc = "preview_done" /\ request.layout = "mosaic-grid"
    /\ Len(request.colors) = 3 /\ request.complexity = 5
    /\ \E k \in 1..Len(content) :
          /\ content[k].kind = "layout"
          /\ content[k].color = Lighten(request.colors[1], 15)
          /\ content[k].rect[1] > 10 /\ content[k].rect[2] > 10
    /\ \E k \in 1..Len(content) :
          content[k].kind = "dot" /\ content[k].color = request.colors[3]


\* C25: text source selection in the text stage: with at least one rich
\* block only rich blocks are drawn and the plain text is ignored; the
\* plain text is drawn only when no rich block is supplied and the text is
\* non-empty, and then it is what is drawn; with neither, nothing is drawn
\* and the content image is left as it was.
C25_TextSource ==
    [][pc = "text" =>
          LET added == SubSeq(content', Len(content) + 1, Len(content'))
              rich == {k \in 1..Len(added) : added[k].px = "rich"}
              plain == {k \in 1..Len(added) : added[k].px = "plain"}
              complete == warnings' = warnings
          IN  /\ SubSeq(content', 1, Len(content)) = content
              /\ \A k \in 1..Len(added) : added[k].kind = "text"
              /\ request.rich_blocks > 0 =>
                    /\ plain = {}
                    /\ complete => Cardinality(rich) = request.rich_blocks
              /\ plain # {} =>
                    request.rich_blocks = 0 /\ request.user_text > 0
              /\ (request.rich_blocks = 0 /\ request.user_text > 0) =>
                    /\ rich = {}
                    /\ complete => Cardinality(plain) = 1
              /\ (request.rich_blocks = 0 /\ request.user_text = 0) =>
                    content' = content /\ complete
    ]_vars

\* C25 witness: a request carrying both a rich block and a plain text was
\* rendered with the rich block only.
C25_Witness ==
    /\ pc = "decor" /\ request.rich_blocks = 1 /\ request.user_text > 0
    /\ content[Len(content)].kind = "text"
    /\ content[Len(content)].px = "rich"
    /\ \A k \in 1..Len(content) : content[k].px # "plain"


\* C30: an exception raised inside the text stage (zone, font or drawing,
\* rich or plain) is caught there: the call goes on to the decoration stage
\* with the caller's outcome untouched, the text drawn before the failure
\* stays in the content image through the decoration stage and the paste
\* back, and the encodes follow.
C30_TextFailureCaught ==
    [][/\ pc = "text" =>
             /\ pc' = "decor" /\ outcome' = outcome
             /\ SubSeq(content', 1, Len(content)) = content
             /\ \A k \in (Len(content) + 1)..Len(content') :
                   content'[k].kind = "text"
             /\ warnings' > warnings =>
                   Len(content') - Len(content)
                       < (IF request.rich_blocks > 0 THEN request.rich_blocks
                          ELSE request.user_text)
       /\ pc = "decor" =>
             /\ pc' = "save_png" /\ outcome' = outcome
             /\ SubSeq(content', 1, Len(content)) = content
             /\ canvas'.pasted = content'
    ]_vars

\* C30 witness: the second of two rich blocks failed; the first block is in
\* the encoded image, the ornaments were drawn and both files were written.
C30_Witness ==
    /\ pc = "done" /\ files = {"png", "pdf"} /\ outcome.status = "ok"
    /\ request.rich_blocks = 2 /\ request.show_borders
    /\ request.complexity = 5 /\ warnings = 1
    /\ ~photo.given /\ request.background = NoBackground
    /\ Cardinality({k \in 1..Len(content) : content[k].kind = "text"}) = 1
    /\ \E k \in 1..Len(content) : content[k].kind = "divider"
    /\ \A e \in encoded : e.buffer.pasted = content


\* Pixel columns and rows at the corners of the canvas and on both sides of
\* every edge of the content rectangle.
C26_Columns ==
    {0, bleed_px_final - 1, bleed_px_final,
     bleed_px_final + content_width - 1, bleed_px_final + content_width,
     content_width + 2 * bleed_px_final - 1}
C26_Rows ==
    {0, bleed_px_final - 1, bleed_px_final,
     bleed_px_final + content_height - 1, bleed_px_final + content_height,
     content_height + 2 * bleed_px_final - 1}

\* C26: in the final output the bleed margin (bleed pixels wide on all four
\* sides of the content rectangle) keeps the base fill palette[0] for every
\* request: the content image is pasted back at (bleed, bleed) and covers
\* the content rectangle only, whatever background, photo, text or
\* ornaments were drawn into it.
C26_BleedKeepsBase ==
    (request.entry = "final" /\ AfterDecor) =>
        LET image == FinalImage
        IN  /\ \A e \in encoded : e.buffer = image
            /\ image.w = content_width + 2 * bleed_px_final
            /\ image.h = content_height + 2 * bleed_px_final
            /\ image.pasted = content
            /\ \A x \in C26_Columns, y \in C26_Rows :
                  LET inside ==
                          /\ x >= bleed_px_final
                          /\ x < bleed_px_final + content_width
                          /\ y >= bleed_px_final
                          /\ y < bleed_px_final + content_height
                  IN  IF inside
                      THEN PixelAt(image, x, y).from = "content"
                      ELSE PixelAt(image, x, y) =
                               [from |-> "base",
                                color |-> request.colors[1]]

\* C26 witness: a final render with a fitted user photo, a text and the
\* ornaments of tier 5 was encoded twice; the pixel next to the content
\* corner is base fill.
C26_Witness ==
    /\ pc = "done" /\ Cardinality(encoded) = 2
    /\ {"photo", "text", "border", "divider"} \subseteq KindsDrawn(content)
    /\ \A e \in encoded :
          /\ PixelAt(e.buffer, bleed_px_final - 1, bleed_px_final - 1).from
                = "base"
          /\ PixelAt(e.buffer, bleed_px_final, bleed_px_final).from
                = "content"


\* C29: when the user photo file exists but cannot be loaded or fitted the
\* failure is not fatal: the background stage leaves the content image as
\* the palette[0] base fill, the request's background settings are not
\* applied in its place, the text and decoration stages follow, and nothing
\* but text and ornaments is ever drawn over the base fill.
C29_PhotoFailureNonFatal ==
    (request.entry = "final" /\ AfterBackground /\ PhotoExists(photo)
         /\ "photo" \notin KindsDrawn(content)) =>
        /\ content[1] = Op("base", request.colors[1],
                           FullRect(content_width, content_height), 0,
                           "fill")
        /\ \A k \in 2..Len(content) :
              content[k].kind \in TextKinds \cup OrnamentKinds
        /\ warnings >= 1
        /\ pc = "done" =>
              /\ outcome.status = "ok" /\ files = {"png", "pdf"}
              /\ request.show_borders =>
                    \A kind \in {"border", "corner", "dot", "divider"} :
                        (kind \in KindsDrawn(content))
                            = (kind \in KindsDrawn(
                                   AddDecorativeElements(
                                       content_width, content_height,
                                       request.complexity, request.colors)))

\* C29 witness: an unreadable user photo with a solid background in the
\* request: both files were returned, with text and ornaments over the
\* base fill and no solid fill.
C29_Witness ==
    /\ pc = "done" /\ files = {"png", "pdf"} /\ outcome.status = "ok"
    /\ photo.given /\ photo.file.state = "corrupt"
    /\ request.background.background_type = "solid"
    /\ request.background.solid
    /\ KindsDrawn(content) = {"base", "text", "border"}


\* C27: for every complexity the generate-final route accepts (any number
\* from 1 to 10) the route builds a valid render request with an integer
\* tier and attempts the render; no accepted complexity makes the
\* construction of the request fail.  (Stated as claimed; the code
\* violates it.)
C27_AcceptedComplexityRenders ==
    (routeOut.done /\ routeIn.complexity >= 2 /\ routeIn.complexity <= 20
         /\ routeIn.colors <= 4) =>
        /\ routeOut.status = "render"
        /\ routeOut.tier \in 1..10
        /\ 2 * routeOut.tier <= routeIn.complexity
        /\ routeIn.complexity < 2 * routeOut.tier + 2


RECURSIVE C28_Joined(_, _)
\* The lines from line k on, joined in order.
C28_Joined(lines, k) ==
    IF k > Len(lines) THEN <<>> ELSE lines[k] \o C28_Joined(lines, k + 1)

\* C28: greedy character wrapping loses nothing: for every text and
\* maximum width the lines joined in order are the text, no line is empty,
\* every line but the last is maximal (with the first character of the
\* next line appended it would exceed the maximum width), and the empty
\* text gives no line.
C28_WrapLosesNothing ==
    wrapOut.done =>
        LET lines == wrapOut.lines
            max_width == wrapIn.area.width - 20
        IN  /\ C28_Joined(lines, 1) = wrapIn.text
            /\ \A k \in 1..Len(lines) : lines[k] # <<>>
            /\ \A k \in 1..(Len(lines) - 1) :
                  TextWidth(Append(lines[k], lines[k + 1][1])) > max_width
            /\ wrapIn.text = <<>> => lines = <<>>

\* C28 witness: a text of four characters was wrapped into a line of two
\* characters followed by further lines.
C28_Witness ==
    /\ wrapOut.done /\ Len(wrapIn.text) = 4 /\ Len(wrapOut.lines) >= 2
    /\ Len(wrapOut.lines[1]) = 2
    /\ wrapOut.lines[1] = SubSeq(wrapIn.text, 1, 2)

====
